---- MODULE Spec2Model ----
(***************************************************************************)
(* Severity / triage scoring pipeline of the 112-Emergency dashboard:      *)
(* emotion aggregation (hume/chat-events), keyword escalation and the      *)
(* conversation-analysis route, the incident-extraction route, the         *)
(* call-creation route, and the client's merge of an analysis into a call  *)
(* and its list of stored calls (StartEmergencyCall).                      *)
(*                                                                         *)
(* Numbers.  JavaScript numbers are modelled as exact fixed-point values:  *)
(* the integer n stands for n / ONE.  ONE is chosen so that every division *)
(* the code performs on the bounded inputs (total / count, sum / length,   *)
(* x * 0.2) is exact.  NaN and undefined are separate tagged values.       *)
(*                                                                         *)
(* Text.  A string is modelled as the sequence of its words (separated by  *)
(* single spaces); toLowerCase acts word by word, a \b(...)\b regular      *)
(* expression matches a contiguous run of words, and String.includes       *)
(* matches inside a word.                                                  *)
(***************************************************************************)
EXTENDS Integers, Sequences, FiniteSets, TLC

VARIABLES env, op, input, output, storedCalls, pages, latest

vars == <<env, op, input, output, storedCalls, pages, latest>>

----------------------------------------------------------------------------
(* Bounds *)

MaxFrames == 2

MaxWords == 2

MaxMessages == 2

----------------------------------------------------------------------------
(* Generic helpers *)

Min(a, b) == IF a <= b THEN a ELSE b

Max(a, b) == IF a >= b THEN a ELSE b

RECURSIVE Gcd(_, _)
Gcd(a, b) == IF b = 0 THEN a ELSE Gcd(b, a % b)

RECURSIVE LcmUpTo(_)
LcmUpTo(n) == IF n <= 1 THEN 1 ELSE LET l == LcmUpTo(n - 1) IN (l * n) \div Gcd(l, n)

Includes(s, x) == \E i \in 1..Len(s) : s[i] = x

RECURSIVE SeqsUpTo(_, _)
SeqsUpTo(S, n) ==
  IF n = 0 THEN {<<>>}
  ELSE LET shorter == SeqsUpTo(S, n - 1)
       IN shorter \cup {Append(s, x) : s \in {t \in shorter : Len(t) = n - 1}, x \in S}

----------------------------------------------------------------------------
(* JavaScript values *)

EmotionNames == {"fear", "Anger", "joy"}

\* Object.entries order of the keys of one frame
KeyOrder == <<"fear", "Anger", "joy">>

\* the value 1.0; every literal of the code is a multiple of 1/100
ONE == 100 * LcmUpTo(MaxFrames) * LcmUpTo(Cardinality(EmotionNames))

Percent(hundredths) == hundredths * (ONE \div 100)

Num(tenths) == tenths * (ONE \div 10)

Whole(n) == n * ONE

Number(n) == [t |-> "number", v |-> n]

Undefined == [t |-> "undefined", v |-> 0]

NaN == [t |-> "NaN", v |-> 0]

StringValue == [t |-> "string", v |-> 0]

IsNumber(x) == x.t = "number"

\* x || d for a numeric or missing x: 0, NaN and undefined are falsy
OrDefault(x, d) == IF IsNumber(x) /\ x.v # 0 THEN x.v ELSE d

ToLowerCaseWord(w) ==
  CASE w = "Anger" -> "anger"
    [] w = "FIRE" -> "fire"
    [] w = "Heart" -> "heart"
    [] w = "Crash" -> "crash"
    [] w = "THEFT" -> "theft"
    [] w = "USER:" -> "user:"
    [] w = "ASSISTANT:" -> "assistant:"
    [] OTHER -> w

----------------------------------------------------------------------------
(* hume/chat-events: calculateEmotionStats *)

TopN == 10

StressWeight == 20

stressEmotions == {"anxiety", "fear", "distress", "panic", "anger", "sadness"}

NoTotals == [keys |-> <<>>,
             totals |-> [e \in EmotionNames |-> 0],
             counts |-> [e \in EmotionNames |-> 0]]

\* the inner forEach counting an entry before it tests typeof score
AddScoreCountingAll(acc, entry) ==
  LET e == entry.emotion
      fresh == ~Includes(acc.keys, e) \/ acc.totals[e] = 0
      t0 == IF fresh THEN 0 ELSE acc.totals[e]
      c0 == IF fresh THEN 0 ELSE acc.counts[e]
  IN IF ~IsNumber(entry.score)
     THEN [acc EXCEPT !.counts = [acc.counts EXCEPT ![e] = c0 + 1]]
     ELSE [keys |-> IF Includes(acc.keys, e) THEN acc.keys ELSE Append(acc.keys, e),
           totals |-> [acc.totals EXCEPT ![e] = t0 + entry.score.v],
           counts |-> [acc.counts EXCEPT ![e] = c0 + 1]]

\* the body of the inner forEach: one [emotion, score] entry
AddScore(acc, entry) ==
  IF ~IsNumber(entry.score) THEN acc
  ELSE LET e == entry.emotion
           fresh == ~Includes(acc.keys, e) \/ acc.totals[e] = 0
           t0 == IF fresh THEN 0 ELSE acc.totals[e]
           c0 == IF fresh THEN 0 ELSE acc.counts[e]
       IN [keys |-> IF Includes(acc.keys, e) THEN acc.keys ELSE Append(acc.keys, e),
           totals |-> [acc.totals EXCEPT ![e] = t0 + entry.score.v],
           counts |-> [acc.counts EXCEPT ![e] = c0 + 1]]

RECURSIVE AddEntries(_, _)
AddEntries(acc, entries) ==
  IF entries = <<>> THEN acc
  ELSE AddEntries(AddScore(acc, Head(entries)), Tail(entries))

\* the body of the outer forEach: one frame
AddFrame(acc, frame) ==
  IF ~frame.object THEN acc ELSE AddEntries(acc, frame.entries)

RECURSIVE AggregateFrames(_, _)
AggregateFrames(acc, frames) ==
  IF frames = <<>> THEN acc
  ELSE AggregateFrames(AddFrame(acc, Head(frames)), Tail(frames))

\* Array.prototype.sort with (a, b) => b.intensity - a.intensity: stable, descending
RECURSIVE InsertDescending(_, _)
InsertDescending(sorted, x) ==
  IF sorted = <<>> THEN <<x>>
  ELSE IF Head(sorted).intensity >= x.intensity
       THEN <<Head(sorted)>> \o InsertDescending(Tail(sorted), x)
       ELSE <<x>> \o sorted

RECURSIVE SortDescending(_)
SortDescending(s) ==
  IF s = <<>> THEN <<>>
  ELSE InsertDescending(SortDescending(SubSeq(s, 1, Len(s) - 1)), s[Len(s)])

Slice(s, n) == SubSeq(s, 1, Min(n, Len(s)))

RECURSIVE SumIntensity(_)
SumIntensity(s) == IF s = <<>> THEN 0 ELSE Head(s).intensity + SumIntensity(Tail(s))

RECURSIVE SumStress(_)
SumStress(s) ==
  IF s = <<>> THEN 0
  ELSE (IF ToLowerCaseWord(Head(s).emotion) \in stressEmotions
        THEN Head(s).intensity * StressWeight ELSE 0) + SumStress(Tail(s))

\* the reduce without the division by topEmotions.length
totalIntensity(topEmotions) == SumIntensity(topEmotions)

\* topEmotions.length > 0 ? reduce(sum) / topEmotions.length : 0
averageIntensity(topEmotions) ==
  IF Len(topEmotions) > 0 THEN SumIntensity(topEmotions) \div Len(topEmotions) ELSE 0

EmptyStats == [top_emotions |-> <<>>, average_intensity |-> 0, distress_level |-> 0]

calculateEmotionStats(allEmotions) ==
  IF Len(allEmotions) = 0 THEN EmptyStats
  ELSE LET agg == AggregateFrames(NoTotals, allEmotions)
           means == [i \in 1..Len(agg.keys) |->
                       [emotion |-> agg.keys[i],
                        intensity |-> agg.totals[agg.keys[i]] \div agg.counts[agg.keys[i]]]]
           topEmotions == Slice(SortDescending(means), TopN)
       IN [top_emotions |-> topEmotions,
           average_intensity |-> averageIntensity(topEmotions),
           distress_level |-> Min(SumStress(topEmotions), Whole(100))]

----------------------------------------------------------------------------
(* Inputs of calculateEmotionStats *)

\* scores a frame may carry for each emotion, in tenths; "absent" = key missing
FrameScores ==
  [fear |-> {Undefined, StringValue, Number(Num(0 - 5)), Number(0), Number(Num(8))},
   Anger |-> {Undefined, Number(Num(10)), Number(Num(60))},
   joy |-> {Undefined, Number(Num(5)), Number(Num(10))}]

RECURSIVE EntriesOf(_, _)
EntriesOf(f, i) ==
  IF i > Len(KeyOrder) THEN <<>>
  ELSE (IF f[KeyOrder[i]] = Undefined THEN <<>>
        ELSE <<[emotion |-> KeyOrder[i], score |-> f[KeyOrder[i]]]>>) \o EntriesOf(f, i + 1)

ObjectFrames ==
  {[object |-> TRUE, entries |-> EntriesOf(f, 1)] :
     f \in {g \in [EmotionNames -> UNION {FrameScores[e] : e \in EmotionNames}] :
              \A e \in EmotionNames : g[e] \in FrameScores[e]}}

\* null, a string or a number in place of a frame
NonObjectFrame == [object |-> FALSE, entries |-> <<>>]

Frames == ObjectFrames \cup {NonObjectFrame}

----------------------------------------------------------------------------
(* Text *)

\* words a transcript may contain
Words == {"fire", "FIRE", "firearm", "Heart", "attack", "gunshot"}

Texts == SeqsUpTo(Words, MaxWords)

\* String.prototype.toLowerCase
ToLowerCase(text) == [i \in 1..Len(text) |-> ToLowerCaseWord(text[i])]

\* /\b(p1|p2|...)\b/.test(text): some phrase occurs as a run of whole words
RegexTest(phrases, text) ==
  \E p \in phrases : \E i \in 1..Len(text) :
    /\ i + Len(p) - 1 <= Len(text)
    /\ SubSeq(text, i, i + Len(p) - 1) = p

----------------------------------------------------------------------------
(* analyze-conversation: applyKeywordEscalation *)

Absent == "(undefined)"

ALS == "Advanced Life Support Ambulance"

\* a property that should hold a list: an array, missing, or of another type
Array(items) == [kind |-> "array", items |-> items]

NoArray == [kind |-> "undefined", items |-> <<>>]

NotAnArray == [kind |-> "string", items |-> <<>>]

IsArray(x) == x.kind = "array"

\* the default assigned whatever the property holds
Overwritten(x, d) == d

\* x || d for a string-valued property: undefined and "" are falsy
OrString(x, d) == IF x = Absent \/ x = "" THEN d ELSE x

cardiacRule ==
  [regex |-> {<<"heart", "attack">>, <<"cardiac", "arrest">>, <<"chest", "pain">>,
              <<"no", "pulse">>, <<"not", "breathing">>},
   severity |-> 95,
   label |-> "MEDICAL_EMERGENCY",
   flag |-> "CARDIAC_EMERGENCY",
   threat |-> "Cardiac arrest risk",
   incident |-> [type |-> "medical_emergency", subtype |-> "cardiac event"]]

traumaRule ==
  [regex |-> {<<"bleeding", "out">>, <<"severe", "bleeding">>, <<"gunshot">>,
              <<"stab", "wound">>},
   severity |-> 92,
   label |-> "TRAUMA_EMERGENCY",
   flag |-> "LIFE_THREATENING_BLEED",
   threat |-> "Severe bleeding",
   incident |-> [type |-> "medical_emergency", subtype |-> "major trauma"]]

fireRule ==
  [regex |-> {<<"fire">>, <<"house", "on", "fire">>, <<"smoke", "inhalation">>,
              <<"trapped", "in", "fire">>},
   severity |-> 90,
   label |-> "FIRE_EMERGENCY",
   flag |-> "ACTIVE_FIRE",
   threat |-> "Structure fire",
   incident |-> [type |-> "fire", subtype |-> "structure fire"]]

keywordMatrix == <<cardiacRule, traumaRule, fireRule>>

\* the rule's score assigned instead of the maximum
AssignedScore(score, floor) == Whole(floor)

\* Math.min in place of Math.max
LoweredScore(score, floor) == Min(OrDefault(score, 0), Whole(floor))

\* Math.max(analysis.severity_score || 0, rule.severity)
RaisedScore(score, floor) == Max(OrDefault(score, 0), Whole(floor))

\* list.push(x) without the test
Pushed(list, x) == Append(list, x)

\* if (!list.includes(x)) list.push(x)
PushIfMissing(list, x) == IF Includes(list, x) THEN list ELSE Append(list, x)

\* the body of keywordMatrix.forEach for a rule whose regex matched
ApplyRule(st, rule) ==
  [analysis |->
     [st.analysis EXCEPT
        !.severity_score = Number(RaisedScore(@, rule.severity)),
        !.priority_code = "Code 3",
        !.caller_condition = OrString(@, "panicked"),
        !.incident_type = OrString(@, rule.incident.type),
        !.incident_subtype = OrString(@, rule.incident.subtype)],
   ensuredLabels |-> PushIfMissing(st.ensuredLabels, rule.label),
   ensuredFlags |-> PushIfMissing(st.ensuredFlags, rule.flag),
   ensuredThreats |-> PushIfMissing(st.ensuredThreats, rule.threat),
   escalated |-> TRUE]

RECURSIVE ApplyRules(_, _, _)
ApplyRules(st, rules, normalizedText) ==
  IF rules = <<>> THEN st
  ELSE ApplyRules(IF RegexTest(Head(rules).regex, normalizedText)
                  THEN ApplyRule(st, Head(rules)) ELSE st,
                  Tail(rules), normalizedText)

\* the tiers with 'critical' starting at 95
EscalatedSeverityFrom95(score) ==
  LET escalatedScore == OrDefault(score, 0)
  IN IF escalatedScore >= Whole(95) THEN "critical"
     ELSE IF escalatedScore >= Whole(60) THEN "high" ELSE "medium"

\* escalatedScore >= 80 ? 'critical' : escalatedScore >= 60 ? 'high' : 'medium'
EscalatedSeverity(score) ==
  LET escalatedScore == OrDefault(score, 0)
  IN IF escalatedScore >= Whole(80) THEN "critical"
     ELSE IF escalatedScore >= Whole(60) THEN "high" ELSE "medium"

\* if (!units.includes(ALS)) units.unshift(ALS)
EnsureALS(units) == IF Includes(units, ALS) THEN units ELSE <<ALS>> \o units

\* the body of if (escalated) { ... }
FinishEscalation(st) ==
  [st.analysis EXCEPT
     !.severity = EscalatedSeverity(st.analysis.severity_score),
     !.flags = Array(st.ensuredFlags),
     !.labels = Array(st.ensuredLabels),
     !.immediate_threats = Array(st.ensuredThreats),
     !.recommended_units = Array(EnsureALS(IF IsArray(@) THEN @.items ELSE <<>>))]

EscalationStart(analysis) ==
  [analysis |-> analysis,
   ensuredFlags |-> IF IsArray(analysis.flags) THEN analysis.flags.items ELSE <<>>,
   ensuredLabels |-> IF IsArray(analysis.labels) THEN analysis.labels.items ELSE <<>>,
   ensuredThreats |-> IF IsArray(analysis.immediate_threats)
                      THEN analysis.immediate_threats.items ELSE <<>>,
   escalated |-> FALSE]

\* the if (escalated) block run without its guard
applyKeywordEscalationUnguarded(analysis, conversationText) ==
  FinishEscalation(ApplyRules(EscalationStart(analysis), keywordMatrix,
                              ToLowerCase(conversationText)))

applyKeywordEscalation(analysis, conversationText) ==
  LET st == ApplyRules(EscalationStart(analysis), keywordMatrix, ToLowerCase(conversationText))
  IN IF st.escalated THEN FinishEscalation(st) ELSE st.analysis

----------------------------------------------------------------------------
(* Inputs of applyKeywordEscalation *)

EscalationScores ==
  {Undefined, NaN, Number(Whole(50)), Number(Whole(93))}

TagLists == {NoArray, Array(<<"ACTIVE_FIRE", "OTHER">>)}

UnitLists == {NoArray, NotAnArray, Array(<<"Fire Engine 7">>), Array(<<"Fire Engine 7", ALS>>)}

EscalationAnalyses ==
  [severity_score : EscalationScores,
   severity : {"low"},
   priority_code : {"Code 1"},
   caller_condition : {Absent, "calm"},
   incident_type : {Absent, "chest pain"},
   incident_subtype : {Absent},
   labels : {NoArray, Array(<<"FIRE_EMERGENCY">>)},
   flags : TagLists,
   immediate_threats : {NoArray, Array(<<"Structure fire">>)},
   recommended_units : UnitLists]

\* the analyses above, and some that carry a subtype or an empty subtype
EscalationInputs ==
  EscalationAnalyses \cup
  {[a EXCEPT !.incident_subtype = subtype] :
     a \in {b \in EscalationAnalyses :
              b.severity_score = Undefined /\ b.recommended_units = NoArray},
     subtype \in {"gas leak", ""}}

----------------------------------------------------------------------------
(* JavaScript arithmetic on possibly missing numbers *)

\* a + b: undefined or NaN on either side gives NaN
Plus(a, b) == IF IsNumber(a) /\ IsNumber(b) THEN Number(a.v + b.v) ELSE NaN

\* k * x for a literal integer k
Times(k, x) == IF IsNumber(x) THEN Number(k * x.v) ELSE NaN

\* a > b: false as soon as one side is not a number
GreaterThan(a, b) == IsNumber(a) /\ IsNumber(b) /\ a.v > b.v

\* Math.min(x, hi)
MathMin(x, hi) == IF IsNumber(x) THEN Number(Min(x.v, hi)) ELSE NaN

\* Math.max(x, lo)
MathMax(x, lo) == IF IsNumber(x) THEN Number(Max(x.v, lo)) ELSE NaN

\* score >= 80 ? 'critical' : score >= 60 ? 'high' : score >= 40 ? 'medium' : 'low'
SeverityLadder(score) ==
  IF IsNumber(score) /\ score.v >= Whole(80) THEN "critical"
  ELSE IF IsNumber(score) /\ score.v >= Whole(60) THEN "high"
  ELSE IF IsNumber(score) /\ score.v >= Whole(40) THEN "medium"
  ELSE "low"

----------------------------------------------------------------------------
(* triage/extract: POST and returnMockExtraction *)

\* a word of the lower-cased transcript contains the keyword
SubstringsOf(w) ==
  CASE w = "firearm" -> {"firearm", "fire", "arm"}
    [] w = "crashed" -> {"crashed", "crash"}
    [] OTHER -> {w}

StringIncludes(text, keyword) == \E i \in 1..Len(text) : keyword \in SubstringsOf(text[i])

IncludesAny(text, keywords) == \E k \in keywords : StringIncludes(text, k)

\* the else-if chain with the medical group tested before the accident group
MockClassMedicalFirst(lowerTranscript) ==
  IF IncludesAny(lowerTranscript, {"fire", "burning"})
  THEN [incident_type |-> "fire", incident_subtype |-> "house fire", severity |-> "critical"]
  ELSE IF IncludesAny(lowerTranscript, {"medical", "heart", "injury"})
  THEN [incident_type |-> "medical_emergency", incident_subtype |-> "medical emergency",
        severity |-> "high"]
  ELSE IF IncludesAny(lowerTranscript, {"accident", "crash", "collision"})
  THEN [incident_type |-> "accident", incident_subtype |-> "car accident", severity |-> "high"]
  ELSE IF IncludesAny(lowerTranscript, {"theft", "robbery", "burglary"})
  THEN [incident_type |-> "crime", incident_subtype |-> "theft", severity |-> "medium"]
  ELSE [incident_type |-> "other", incident_subtype |-> "emergency", severity |-> "medium"]

MockClass(lowerTranscript) ==
  IF IncludesAny(lowerTranscript, {"fire", "burning"})
  THEN [incident_type |-> "fire", incident_subtype |-> "house fire", severity |-> "critical"]
  ELSE IF IncludesAny(lowerTranscript, {"accident", "crash", "collision"})
  THEN [incident_type |-> "accident", incident_subtype |-> "car accident", severity |-> "high"]
  ELSE IF IncludesAny(lowerTranscript, {"medical", "heart", "injury"})
  THEN [incident_type |-> "medical_emergency", incident_subtype |-> "medical emergency",
        severity |-> "high"]
  ELSE IF IncludesAny(lowerTranscript, {"theft", "robbery", "burglary"})
  THEN [incident_type |-> "crime", incident_subtype |-> "theft", severity |-> "medium"]
  ELSE [incident_type |-> "other", incident_subtype |-> "emergency", severity |-> "medium"]

\* a location property: an object (as the extraction schema has it), a string, or missing
LocationObject == [t |-> "object", text |-> <<"Address extracted from transcript">>]

LocationString(text) == [t |-> "string", text |-> text]

NoLocation == [t |-> "undefined", text |-> <<>>]

mockExtraction(transcript) ==
  LET c == MockClass(ToLowerCase(transcript))
  IN [incident_type |-> c.incident_type,
      incident_subtype |-> c.incident_subtype,
      severity |-> c.severity,
      severity_score |-> Undefined,
      location |-> LocationObject,
      persons_involved |-> [count |-> 1, injuries |-> c.severity \in {"critical", "high"}],
      immediate_threats |-> Array(IF c.severity = "critical"
                                  THEN <<"active emergency">> ELSE <<>>),
      time_sensitive_factors |-> Array(<<>>),
      vehicles_involved |-> Array(<<>>),
      weapons_mentioned |-> Array(<<>>),
      caller_condition |-> IF c.severity = "critical" THEN "panicked" ELSE "distressed",
      summary |-> <<c.incident_subtype, "reported.", c.severity,
                    "severity situation requiring immediate attention.">>,
      confidence_score |-> Number(Percent(75)),
      missing_critical_info |-> Array(<<>>),
      recommended_questions |-> Array(<<"Can you confirm the exact address?">>),
      recommendations |-> NoArray]

returnMockExtraction(transcript) ==
  [status |-> 200, success |-> TRUE, extraction |-> mockExtraction(transcript),
   model |-> "mock_extraction"]

ErrorResponse(status, error) == [status |-> status, success |-> FALSE, error |-> error]

\* JSON.parse('{}'): an object without any property
EmptyExtraction ==
  [incident_type |-> Absent, incident_subtype |-> Absent, severity |-> Absent,
   severity_score |-> Undefined, location |-> NoLocation,
   persons_involved |-> [count |-> 0, injuries |-> FALSE],
   immediate_threats |-> NoArray, time_sensitive_factors |-> NoArray,
   vehicles_involved |-> NoArray, weapons_mentioned |-> NoArray,
   caller_condition |-> Absent, summary |-> <<>>, confidence_score |-> Undefined,
   missing_critical_info |-> NoArray, recommended_questions |-> NoArray,
   recommendations |-> NoArray]

\* the request body's transcript: a string, or the property is missing
StringBody(text) == [t |-> "string", text |-> text]

NoBody == [t |-> "undefined", text |-> <<>>]

\* !transcript: undefined and the empty string are falsy
Falsy(transcript) == transcript.t = "undefined" \/ transcript.text = <<>>

\* outcome of openai.chat.completions.create and of reading its content
NoLlmCall == [kind |-> "not called"]

LlmFailures ==
  {[kind |-> "network error"], [kind |-> "http error"], [kind |-> "malformed json"]}

\* the handler without its inner catch: the error reaches the outer catch
apiErrorRethrown(transcript) == ErrorResponse(500, "Failed to extract information")

\* catch (apiError): the inner catch around the completion request and JSON.parse
catchApiError(transcript) == returnMockExtraction(transcript.text)

triageExtract(transcript, openaiApiKey, llm) ==
  IF Falsy(transcript) THEN ErrorResponse(400, "Transcript is required")
  ELSE IF ~openaiApiKey THEN returnMockExtraction(transcript.text)
  ELSE IF llm.kind \in {"network error", "http error", "malformed json"}
       THEN catchApiError(transcript)
  ELSE IF llm.kind = "empty content"
       THEN [status |-> 200, success |-> TRUE, extraction |-> EmptyExtraction,
             model |-> "gpt-4-turbo-preview"]
  ELSE [status |-> 200, success |-> TRUE, extraction |-> llm.json,
        model |-> "gpt-4-turbo-preview"]

----------------------------------------------------------------------------
(* Inputs of triage/extract *)

\* words a transcript handed to the mock extractor may consist of
MockWords ==
  {"FIRE", "firearm", "burning", "Crash", "crashed", "Heart", "injury", "THEFT", "help"}

MockTranscripts == SeqsUpTo(MockWords, MaxWords) \ {<<>>}

ExtractTranscripts == {NoBody} \cup {StringBody(t) : t \in Texts}

\* JSON objects the language model may answer the extraction prompt with
LlmExtractions ==
  {EmptyExtraction,
   [EmptyExtraction EXCEPT !.recommendations = NotAnArray,
                           !.location = LocationString(<<"Main", "Street">>)],
   [EmptyExtraction EXCEPT !.severity_score = Number(0)],
   [mockExtraction(<<"fire">>) EXCEPT !.severity_score = Number(Whole(85)),
                                      !.location = LocationString(<<"noida">>),
                                      !.recommendations = Array(<<"Evacuate the building">>)],
   [mockExtraction(<<"attack">>) EXCEPT !.incident_type = "public_safety",
                                      !.severity = "low",
                                      !.severity_score = Number(Whole(20)),
                                      !.location = LocationString(<<"india">>),
                                      !.caller_condition = "calm"]}

ExtractLlmOutcomes ==
  LlmFailures \cup {[kind |-> "empty content"]}
              \cup {[kind |-> "json", json |-> j] : j \in LlmExtractions}

----------------------------------------------------------------------------
(* hume/chat-events: GET *)

\* the transcript and the frames GET builds from the vendor's events
RECURSIVE TranscriptOf(_)
TranscriptOf(events) ==
  IF events = <<>> THEN <<>>
  ELSE (IF Head(events).type = "USER_MESSAGE"
        THEN <<[role |-> "user", text |-> Head(events).text]>>
        ELSE IF Head(events).type = "AGENT_MESSAGE"
        THEN <<[role |-> "assistant", text |-> Head(events).text]>>
        ELSE <<>>) \o TranscriptOf(Tail(events))

RECURSIVE AllEmotionsOf(_)
AllEmotionsOf(events) ==
  IF events = <<>> THEN <<>>
  ELSE (IF Head(events).type = "USER_MESSAGE" /\ Head(events).emotions.object
        THEN <<Head(events).emotions>> ELSE <<>>) \o AllEmotionsOf(Tail(events))

\* outcome of the request to the vendor's events endpoint
HumeFailures == {[kind |-> "network error"], [kind |-> "http error", status |-> 404],
                 [kind |-> "http error", status |-> 500]}

NoHumeCall == [kind |-> "not called"]

chatEvents(chatGroupId, humeApiKey, hume) ==
  IF chatGroupId = Absent THEN ErrorResponse(400, "chat_group_id is required")
  ELSE IF ~humeApiKey
  THEN [status |-> 200, success |-> FALSE, hasTranscript |-> FALSE, transcript |-> <<>>,
        emotions |-> <<>>, hasStats |-> FALSE, emotion_stats |-> EmptyStats]
  ELSE IF hume.kind = "network error" THEN ErrorResponse(500, "Failed to fetch chat events")
  ELSE IF hume.kind = "http error"
  THEN ErrorResponse(hume.status,
                     IF hume.status = 404 THEN "Chat events not found" ELSE "Hume API error")
  ELSE [status |-> 200, success |-> TRUE, hasTranscript |-> TRUE,
        transcript |-> TranscriptOf(hume.events),
        emotions |-> AllEmotionsOf(hume.events),
        hasStats |-> TRUE,
        emotion_stats |-> calculateEmotionStats(AllEmotionsOf(hume.events))]

----------------------------------------------------------------------------
(* analyze/conversation: POST and createEmotionBasedAnalysis *)

\* humeData.emotion_stats?.distress_level || 0
DistressOf(humeData) == IF humeData.hasStats THEN humeData.emotion_stats.distress_level ELSE 0

\* humeData.emotion_stats?.top_emotions || []
TopEmotionsOf(humeData) == IF humeData.hasStats THEN humeData.emotion_stats.top_emotions ELSE <<>>

RECURSIVE EmotionTags(_, _)
EmotionTags(topEmotions, field) ==
  IF topEmotions = <<>> THEN <<>>
  ELSE LET e == Head(topEmotions)
           tag == CASE e.emotion = "fear" ->
                         [label |-> "HIGH_FEAR", flag |-> "CALLER_AFRAID"]
                    [] e.emotion = "distress" ->
                         [label |-> "CALLER_DISTRESSED", flag |-> "HIGH_DISTRESS"]
                    [] e.emotion = "anger" ->
                         [label |-> "POTENTIAL_VIOLENCE", flag |-> "ANGER_DETECTED"]
                    [] OTHER -> [label |-> Absent, flag |-> Absent]
       IN (IF tag.label # Absent /\ e.intensity > Num(6) THEN <<tag[field]>> ELSE <<>>)
          \o EmotionTags(Tail(topEmotions), field)

\* distressLevel >= 70 ? 'critical' : >= 50 ? 'high' : >= 30 ? 'medium' : 'low'
EmotionSeverity(distressLevel) ==
  IF distressLevel >= Whole(70) THEN "critical"
  ELSE IF distressLevel >= Whole(50) THEN "high"
  ELSE IF distressLevel >= Whole(30) THEN "medium"
  ELSE "low"

createEmotionBasedAnalysis(humeData) ==
  LET distressLevel == DistressOf(humeData)
      topEmotions == TopEmotionsOf(humeData)
      flags == EmotionTags(Slice(topEmotions, 3), "flag")
      severity == EmotionSeverity(distressLevel)
  IN [labels |-> Array(<<"EMERGENCY_CALL">> \o EmotionTags(Slice(topEmotions, 3), "label")),
      severity |-> severity,
      severity_score |-> Number(distressLevel),
      flags |-> Array(flags),
      incident_type |-> "emergency",
      incident_subtype |-> Absent,
      immediate_threats |-> Array(flags),
      recommended_units |-> Array(<<"Emergency Services">>),
      priority_code |-> IF severity = "critical" THEN "Code 3" ELSE "Code 2",
      caller_condition |-> IF distressLevel >= Whole(70) THEN "panicked"
                           ELSE IF distressLevel >= Whole(50) THEN "distressed"
                           ELSE IF distressLevel >= Whole(30) THEN "concerned"
                           ELSE "calm",
      analysis_method |-> "Emotion-based (GPT unavailable)"]

\* the early return replaced by the emotion-only analysis of the empty data
emotionOnlyOfNothing == createEmotionBasedAnalysis(chatEvents("chat_1", FALSE, NoHumeCall))

noTranscriptAnalysis ==
  [labels |-> Array(<<"NO_TRANSCRIPT">>),
   severity |-> "low",
   severity_score |-> Number(0),
   flags |-> Array(<<>>),
   analysis_method |-> Absent]

\* one line of the compiled transcript: ROLE: text
LineOf(msg) == <<IF msg.role = "user" THEN "USER:" ELSE "ASSISTANT:">> \o msg.text

\* map / filter(non-empty) / join('\n')
RECURSIVE ConversationTextOf(_)
ConversationTextOf(transcript) ==
  IF transcript = <<>> THEN <<>>
  ELSE LET rest == ConversationTextOf(Tail(transcript))
       IN IF Head(transcript).text = <<>> THEN rest
          ELSE IF rest = <<>> THEN LineOf(Head(transcript))
          ELSE LineOf(Head(transcript)) \o <<"\n">> \o rest

\* Math.min(gptAnalysis.severity_score + (distress_level || 0) * 0.2, 100)
BoostedScore(gptAnalysis, humeData) ==
  MathMin(Plus(gptAnalysis.severity_score, Number(DistressOf(humeData) \div 5)), Whole(100))

\* Step 4: the merge, the recomputed tier and the keyword escalation
finalAnalysis(gptAnalysis, humeData, conversationText) ==
  LET boostedScore == BoostedScore(gptAnalysis, humeData)
      merged == [gptAnalysis EXCEPT !.severity_score = boostedScore,
                                    !.severity = SeverityLadder(boostedScore)]
  IN applyKeywordEscalation(merged, conversationText)
       @@ [analysis_method |-> "GPT-4 + Hume Emotion Detection"]

AnalysisResponse(analysis) == [status |-> 200, success |-> TRUE, analysis |-> analysis]

analyzeConversation(chat_group_id, humeData, openaiKey, llm) ==
  IF chat_group_id = Absent THEN ErrorResponse(400, "chat_group_id is required")
  ELSE IF humeData.status # 200
  THEN ErrorResponse(humeData.status, "Failed to fetch conversation data")
  ELSE IF ~humeData.hasTranscript \/ Len(humeData.transcript) = 0
  THEN AnalysisResponse(noTranscriptAnalysis)
  ELSE IF ~openaiKey THEN AnalysisResponse(createEmotionBasedAnalysis(humeData))
  ELSE IF llm.kind \in {"network error", "http error", "empty content", "malformed json"}
  THEN ErrorResponse(500, "Failed to analyze conversation")
  ELSE AnalysisResponse(
         finalAnalysis(llm.json, humeData, ConversationTextOf(humeData.transcript)))

----------------------------------------------------------------------------
(* Inputs of analyze/conversation *)

\* what one message of a conversation may say
PipelineTexts == {<<>>, <<"help">>, <<"fire">>, <<"Heart", "attack">>}

Frame(fear, anger) ==
  [object |-> TRUE,
   entries |-> <<[emotion |-> "fear", score |-> Number(Num(fear))],
                 [emotion |-> "Anger", score |-> Number(Num(anger))]>>]

\* no scores on the event
NoFrame == NonObjectFrame

PipelineFrames == {NoFrame, Frame(8, 10), Frame(60, 10)}

Events ==
  [type : {"USER_MESSAGE"}, text : PipelineTexts, emotions : PipelineFrames]
    \cup [type : {"AGENT_MESSAGE"}, text : {<<>>, <<"fire">>}, emotions : {NoFrame}]
    \cup [type : {"CHAT_METADATA"}, text : {<<>>}, emotions : {NoFrame}]

HumeOutcomes ==
  HumeFailures \cup {[kind |-> "ok", events |-> ev] : ev \in SeqsUpTo(Events, MaxMessages)}

\* JSON objects the language model may answer the analysis prompt with
LlmAnalyses ==
  [severity_score : {Undefined, Number(Whole(20)), Number(Whole(55)), Number(Whole(98))},
   severity : {"high"},
   priority_code : {"Code 2"},
   caller_condition : {Absent, "calm"},
   incident_type : {"chest pain"},
   incident_subtype : {Absent},
   labels : {Array(<<"MEDICAL_EMERGENCY">>)},
   flags : {NoArray, Array(<<"LIFE_THREATENING">>)},
   immediate_threats : {Array(<<>>)},
   recommended_units : {Array(<<"Ambulance 12">>)}]

AnalysisLlmOutcomes ==
  LlmFailures \cup {[kind |-> "empty content"]}
              \cup {[kind |-> "json", json |-> j] : j \in LlmAnalyses}

----------------------------------------------------------------------------
(* lib/types: the closed enums of a call record *)

IncidentType == {"fire", "medical_emergency", "accident", "crime", "public_safety", "other"}

CallerCondition == {"calm", "distressed", "injured", "panicked", "unclear"}

----------------------------------------------------------------------------
(* calls/create: POST, buildCallerLocation and lookupIndianCoordinates *)

\* String.prototype.trim: " " stands for a run of white space
RECURSIVE TrimStart(_)
TrimStart(text) ==
  IF text # <<>> /\ Head(text) = " " THEN TrimStart(Tail(text)) ELSE text

RECURSIVE TrimEnd(_)
TrimEnd(text) ==
  IF text # <<>> /\ text[Len(text)] = " " THEN TrimEnd(SubSeq(text, 1, Len(text) - 1))
  ELSE text

Trim(text) == TrimEnd(TrimStart(text))

\* the phrase occurs in the text (String.includes / an unanchored regex)
IncludesPhrase(text, phrase) ==
  IF Len(phrase) = 1 THEN StringIncludes(text, phrase[1]) ELSE RegexTest({phrase}, text)

lookupTable ==
  <<[key |-> <<"noida">>, latitude |-> "28.5355", longitude |-> "77.391"],
    [key |-> <<"greater", "noida">>, latitude |-> "28.4744", longitude |-> "77.503"],
    [key |-> <<"uttar", "pradesh">>, latitude |-> "26.8467", longitude |-> "80.9462"],
    [key |-> <<"delhi">>, latitude |-> "28.6139", longitude |-> "77.209"],
    [key |-> <<"new", "delhi">>, latitude |-> "28.6139", longitude |-> "77.209"],
    [key |-> <<"rohini", "sector", "16">>, latitude |-> "28.7196", longitude |-> "77.1186"]>>

RECURSIVE LookupFrom(_, _)
LookupFrom(normalizedQuery, i) ==
  IF i > Len(lookupTable) THEN [latitude |-> "28.6139", longitude |-> "77.209"]
  ELSE IF IncludesPhrase(normalizedQuery, lookupTable[i].key)
       THEN [latitude |-> lookupTable[i].latitude, longitude |-> lookupTable[i].longitude]
       ELSE LookupFrom(normalizedQuery, i + 1)

lookupIndianCoordinates(query) == LookupFrom(ToLowerCase(query), 1)

buildCallerLocation(locationText) ==
  IF locationText.t = "string" /\ Trim(locationText.text) # <<>>
  THEN LET normalized == Trim(locationText.text)
       IN IF \E place \in {<<"india">>, <<"delhi">>, <<"noida">>, <<"uttar", "pradesh">>} :
               IncludesPhrase(ToLowerCase(normalized), place)
          THEN LET latLon == lookupIndianCoordinates(normalized)
               IN [address |-> normalized, latitude |-> latLon.latitude,
                   longitude |-> latLon.longitude, confidence |-> Percent(85)]
          ELSE [address |-> normalized, latitude |-> "37.7749", longitude |-> "-122.4194",
                confidence |-> Percent(40)]
  ELSE [address |-> <<"Location pending verification">>, latitude |-> "28.6139",
        longitude |-> "77.209", confidence |-> Percent(25)]

\* transcript && transcript.length > 0
HasLength(transcript) ==
  \/ transcript.t = "array" /\ transcript.segments # <<>>
  \/ transcript.t = "string" /\ transcript.segments # << <<>> >>

\* typeof segment?.text === 'string' ? segment.text.trim() : ''
SegmentText(segment) == IF segment.string THEN Trim(segment.text) ELSE <<>>

\* the trimmed, non-empty texts: of the segments of a list, of the lines of a string
RECURSIVE Sanitized(_)
Sanitized(segments) ==
  IF segments = <<>> THEN <<>>
  ELSE (IF SegmentText(Head(segments)) # <<>> THEN <<SegmentText(Head(segments))>> ELSE <<>>)
       \o Sanitized(Tail(segments))

\* Array.prototype.join(' ')
RECURSIVE Join(_)
Join(texts) == IF texts = <<>> THEN <<>> ELSE Head(texts) \o Join(Tail(texts))

fullTranscriptOf(transcript) ==
  IF transcript.t \in {"array", "string"} THEN Join(Sanitized(transcript.segments)) ELSE <<>>

\* emotions.reduce((prev, current) => current.intensity > prev.intensity ? current : prev)
RECURSIVE ReduceTop(_, _)
ReduceTop(prev, rest) ==
  IF rest = <<>> THEN prev
  ELSE ReduceTop(IF GreaterThan(Head(rest).intensity, prev.intensity) THEN Head(rest) ELSE prev,
                 Tail(rest))

NoTopEmotion == [emotion |-> Absent, intensity |-> Undefined, none |-> TRUE]

topEmotionOf(emotions) ==
  IF emotions.kind = "array" /\ emotions.items # <<>>
  THEN [emotion |-> ReduceTop(Head(emotions.items), Tail(emotions.items)).emotion,
        intensity |-> ReduceTop(Head(emotions.items), Tail(emotions.items)).intensity,
        none |-> FALSE]
  ELSE NoTopEmotion

emotionBoost(emotion) ==
  CASE emotion = "fear" -> 20
    [] emotion = "distress" -> 20
    [] emotion = "panic" -> 25
    [] emotion = "anxiety" -> 15
    [] emotion = "anger" -> 15
    [] emotion = "sadness" -> 10
    [] OTHER -> 0

\* triageData?.extraction?.severity_score || 50
BaseScore(triageData) ==
  IF triageData.status = 200 THEN OrDefault(triageData.extraction.severity_score, Whole(50))
  ELSE Whole(50)

\* Step 3: base, boost of the top emotion, clamp
severityScoreOf(triageData, topEmotion) ==
  LET boosted == IF topEmotion.none THEN Number(BaseScore(triageData))
                 ELSE Plus(Number(BaseScore(triageData)),
                           Times(emotionBoost(topEmotion.emotion), topEmotion.intensity))
  IN MathMin(MathMax(boosted, 0), Whole(100))

\* triageData?.extraction?.<field> || fallback
ExtractionString(triageData, field, fallback) ==
  IF triageData.status = 200 THEN OrString(triageData.extraction[field], fallback) ELSE fallback

NoTriage == ErrorResponse(0, "no triage data")

\* triageData?.extraction?.recommendations?.join('. ') || 'Dispatch ...'
aiRecommendation(triageData) ==
  IF triageData.status = 200 /\ IsArray(triageData.extraction.recommendations)
     /\ triageData.extraction.recommendations.items # <<>>
  THEN triageData.extraction.recommendations.items
  ELSE <<"Dispatch appropriate emergency services immediately.">>

newCall(callId, phoneNumber, triageData, emotions) ==
  LET topEmotion == topEmotionOf(emotions)
      severityScore == severityScoreOf(triageData, topEmotion)
  IN [id |-> callId,
      caller_number |-> phoneNumber,
      status |-> "active",
      call_status |-> "in-progress",
      caller_location |-> buildCallerLocation(IF triageData.status = 200
                                              THEN triageData.extraction.location
                                              ELSE NoLocation),
      incident_type |-> ExtractionString(triageData, "incident_type", "emergency"),
      incident_subtype |-> ExtractionString(triageData, "incident_subtype", "Unknown"),
      severity |-> SeverityLadder(severityScore),
      severity_score |-> severityScore,
      top_emotion |-> OrString(topEmotion.emotion, "distress"),
      caller_condition |-> IF IsNumber(severityScore) /\ severityScore.v >= Whole(70)
                           THEN "panicked"
                           ELSE IF IsNumber(severityScore) /\ severityScore.v >= Whole(50)
                           THEN "distressed"
                           ELSE IF IsNumber(severityScore) /\ severityScore.v >= Whole(30)
                           THEN "unclear"
                           ELSE "calm",
      immediate_threats |-> IF triageData.status = 200
                               /\ IsArray(triageData.extraction.immediate_threats)
                            THEN triageData.extraction.immediate_threats
                            ELSE Array(<<>>),
      ai_recommendation |-> aiRecommendation(triageData)]

\* the handler without its check of phoneNumber
createCallUnchecked(phoneNumber, transcript, emotions, callId, triageData) ==
  [status |-> 200, success |-> TRUE,
   call |-> newCall(callId, phoneNumber, triageData, emotions)]

\* recommendations?.join('. ') on a value that is neither missing nor an array
\* (a string has no join) throws a TypeError
JoinThrows(triageData) ==
  triageData.status = 200 /\ triageData.extraction.recommendations.kind = "string"

createCall(phoneNumber, transcript, emotions, callId, triageData) ==
  IF phoneNumber = Absent THEN ErrorResponse(400, "Phone number is required")
  ELSE IF JoinThrows(triageData) THEN ErrorResponse(500, "Failed to create call")
  ELSE [status |-> 200, success |-> TRUE,
        call |-> newCall(callId, phoneNumber, triageData, emotions)]

----------------------------------------------------------------------------
(* Inputs of calls/create *)

\* what one transcript segment, or one line of a transcript string, may say
CallTexts == {<<>>, <<" ">>, <<"fire">>, <<"firearm">>, <<"Heart", "attack">>}

Segments == [string : {TRUE}, text : CallTexts] \cup {[string |-> FALSE, text |-> <<>>]}

CallTranscripts ==
  {[t |-> "undefined", segments |-> <<>>], [t |-> "object", segments |-> <<>>]}
    \cup {[t |-> "array", segments |-> sg] : sg \in SeqsUpTo(Segments, MaxMessages)}
    \cup {[t |-> "string", segments |-> sg] :
            sg \in SeqsUpTo([string : {TRUE}, text : CallTexts], MaxMessages) \ {<<>>}}

Emotion(emotion, tenths) == [emotion |-> emotion, intensity |-> Number(Num(tenths))]

\* a frame forwarded as a raw score map: no emotion and no intensity property
RawFrame == [emotion |-> Absent, intensity |-> Undefined]

\* the emotions property of the request body
CallEmotions ==
  {NoArray, Array(<<>>),
   Array(<<Emotion("fear", 8)>>),
   Array(<<Emotion("joy", 9), Emotion("fear", 8)>>),
   Array(<<Emotion("fear", 8), Emotion("panic", 10)>>),
   Array(<<Emotion("sadness", 5), Emotion("joy", 5)>>),
   Array(<<RawFrame>>),
   Array(<<RawFrame, Emotion("fear", 8)>>)}

\* call_${Date.now()}_${Math.random()...}
GeneratedIds == {"call_1_a", "call_2_b"}

ConversationIds == {Absent, "chat_1"}

\* outcome of the request to /api/triage/extract
TriageFetchFails == [kind |-> "fetch failed"]

----------------------------------------------------------------------------
(* StartEmergencyCall: mergeAnalysisIntoCall and persistAnalyzedCall.       *)
(* storedCalls is the list kept under 'kwik_emergency_calls' in             *)
(* localStorage.  Of a call and of an analysis the model keeps the          *)
(* classification fields (type, tier, score, priority, caller condition,    *)
(* labels, flags, threats, units); summary, confidence, persons, location   *)
(* and emotion fields are left out.                                         *)

\* obj.key, with `missing` for a property the object does not have
Get(obj, key, missing) == IF key \in DOMAIN obj THEN obj[key] ELSE missing

\* a ?? b on numbers and on lists: b only for undefined
NullishNumber(a, b) == IF a = Undefined THEN b ELSE a

NullishList(a, b) == IF a.kind = "undefined" THEN b ELSE a

\* JSON null: what JSON.stringify writes for NaN
Null == [t |-> "null", v |-> 0]

StringKeys ==
  {"id", "caller_number", "status", "call_status", "incident_type", "incident_subtype",
   "severity", "top_emotion", "caller_condition", "priority_code", "analysis_method"}

NumberKeys == {"severity_score"}

ListKeys == {"labels", "flags", "immediate_threats", "recommended_units"}

IsUndefinedAt(obj, key) ==
  CASE key \in StringKeys -> obj[key] = Absent
    [] key \in NumberKeys -> obj[key] = Undefined
    [] key \in ListKeys -> obj[key].kind = "undefined"
    [] OTHER -> FALSE

\* JSON.parse(JSON.stringify(obj)): properties whose value is undefined are
\* dropped, NaN is written as null
RECURSIVE JsonRoundTrip(_)
JsonRoundTrip(obj) ==
  [key \in {k \in DOMAIN obj : ~IsUndefinedAt(obj, k)} |->
     IF key \in NumberKeys /\ obj[key] = NaN THEN Null
     ELSE IF key = "analysis" THEN JsonRoundTrip(obj[key])
     ELSE obj[key]]

\* no analysis in the payload
NoAnalysis == [none |-> TRUE]

mergeAnalysisIntoCall(call, analysis) ==
  IF analysis = NoAnalysis THEN call
  ELSE [analysis |-> analysis,
        incident_type |-> OrString(Get(analysis, "incident_type", Absent), call.incident_type),
        incident_subtype |-> OrString(Get(analysis, "incident_type", Absent),
                                      call.incident_subtype),
        severity |-> OrString(Get(analysis, "severity", Absent), call.severity),
        severity_score |-> NullishNumber(Get(analysis, "severity_score", Undefined),
                                         call.severity_score),
        immediate_threats |-> NullishList(Get(analysis, "immediate_threats", NoArray),
                                          call.immediate_threats),
        priority_code |-> OrString(Get(analysis, "priority_code", Absent),
                                   Get(call, "priority_code", Absent)),
        caller_condition |-> OrString(Get(analysis, "caller_condition", Absent),
                                      call.caller_condition),
        labels |-> NullishList(Get(analysis, "labels", NoArray), Get(call, "labels", NoArray)),
        flags |-> NullishList(Get(analysis, "flags", NoArray), Get(call, "flags", NoArray)),
        recommended_units |-> NullishList(Get(analysis, "recommended_units", NoArray),
                                          Get(call, "recommended_units", NoArray))]
       @@ call

\* storedCalls.findIndex((call) => call.id === id); 0 when there is none
RECURSIVE FindIndexFrom(_, _, _)
FindIndexFrom(calls, id, i) ==
  IF i > Len(calls) THEN 0
  ELSE IF calls[i].id = id THEN i ELSE FindIndexFrom(calls, id, i + 1)

findIndex(calls, id) == FindIndexFrom(calls, id, 1)

\* the call that is stored: the created call with the session's transcript and
\* frames, completed, merged with the analysis
enrichedCallOf(baseCall, transcript, emotionFrames, analysis) ==
  mergeAnalysisIntoCall(
    [transcript |-> transcript, emotion_data |-> emotionFrames, call_status |-> "completed"]
      @@ baseCall,
    analysis)

\* { ...storedCalls[existingIndex], ...enrichedCall }
Spread(stored, enrichedCall) == enrichedCall @@ stored

\* the list with the call added in front whether or not its id is stored
storedCallsPrepended(calls, enrichedCall) ==
  LET written == <<enrichedCall>> \o calls
  IN [i \in 1..Len(written) |-> JsonRoundTrip(written[i])]

\* the list written back to localStorage, as it is read the next time
storedCallsAfter(calls, enrichedCall) ==
  LET existingIndex == findIndex(calls, enrichedCall.id)
      written == IF existingIndex > 0
                 THEN [calls EXCEPT ![existingIndex] = Spread(calls[existingIndex], enrichedCall)]
                 ELSE <<enrichedCall>> \o calls
  IN [i \in 1..Len(written) |-> JsonRoundTrip(written[i])]

\* what persistAnalyzedCall returns, or that it threw
persistAnalyzedCall(calls, createPayload, transcript, emotionFrames, analysis) ==
  IF createPayload.status # 200 \/ ~createPayload.success
  THEN [threw |-> TRUE, error |-> createPayload.error]
  ELSE LET enrichedCall == enrichedCallOf(createPayload.call, transcript, emotionFrames,
                                          analysis)
       IN [threw |-> FALSE,
           callId |-> enrichedCall.id,
           isUpdate |-> findIndex(calls, enrichedCall.id) > 0,
           baseCall |-> createPayload.call,
           enrichedCall |-> enrichedCall]

\* building the text of the 'Emergency Call Analyzed' alert calls join on flags,
\* recommended_units and labels: a TypeError when one of them is a string
AlertTextThrows(enrichedCall) ==
  \E key \in {"flags", "recommended_units", "labels"} :
    Get(enrichedCall, key, NoArray).kind = "string"

\* what a run of a persisting function did: whether it threw, the stored list
\* it left, how often it wrote the list, how often it called onCallCreated, and
\* the alerts it showed
Effects(threw, calls, writes, notified, alerts) ==
  [threw |-> threw, calls |-> calls, writes |-> writes, notified |-> notified,
   alerts |-> alerts]

\* persistAnalyzedCall from the response of /api/calls/create on, with the
\* options of handleConversationEnd (notifyDashboard, closeModal, showAlert)
persistAndAnnounce(calls, createPayload, transcript, emotionFrames, analysis) ==
  LET result == persistAnalyzedCall(calls, createPayload, transcript, emotionFrames, analysis)
  IN IF result.threw THEN Effects(TRUE, calls, 0, 0, <<>>)
     ELSE Effects(AlertTextThrows(result.enrichedCall),
                  storedCallsAfter(calls, result.enrichedCall),
                  1,
                  IF result.isUpdate THEN 0 ELSE 1,
                  IF AlertTextThrows(result.enrichedCall) THEN <<>>
                  ELSE <<"Emergency Call Analyzed!">>)

\* { ...payload.call, transcript }
fallbackCallOf(baseCall, transcript) == [transcript |-> transcript] @@ baseCall

\* handleFallbackCallCreation from the response of /api/calls/create on; its
\* catch block turns every failure into an alert
handleFallbackCallCreation(calls, createPayload, transcript) ==
  IF createPayload.status # 200 \/ ~createPayload.success
  THEN Effects(FALSE, calls, 0, 0, <<"Failed to create call. Please try again.">>)
  ELSE Effects(FALSE,
               storedCallsAfter(calls, fallbackCallOf(createPayload.call, transcript)),
               1, 1, <<"Emergency call created!">>)

\* handleConversationEnd with a callId set: the analysis request, persisting,
\* and the fallback of the catch block
handleConversationEnd(calls, analysisPayload, created, recreated, transcript, frames) ==
  LET analysisThrew == analysisPayload.status # 200 \/ ~analysisPayload.success
      persisted == IF analysisThrew THEN Effects(TRUE, calls, 0, 0, <<>>)
                   ELSE persistAndAnnounce(calls, created, transcript, frames,
                                           analysisPayload.analysis)
      fallback == handleFallbackCallCreation(persisted.calls, recreated, transcript)
  IN IF persisted.threw
     THEN [analysisThrew |-> analysisThrew,
           persistWrote |-> persisted.writes > 0,
           fallbackRan |-> TRUE,
           calls |-> fallback.calls,
           writes |-> persisted.writes + fallback.writes,
           notified |-> persisted.notified + fallback.notified,
           alerts |-> persisted.alerts \o fallback.alerts]
     ELSE [analysisThrew |-> FALSE,
           persistWrote |-> TRUE,
           fallbackRan |-> FALSE,
           calls |-> persisted.calls,
           writes |-> persisted.writes,
           notified |-> persisted.notified,
           alerts |-> persisted.alerts]

----------------------------------------------------------------------------
(* StartEmergencyCall: handleFetchLatestConversation *)

\* the component's state the 'Fetch Latest Data' flow works on, with the
\* position of the running flow: idle, or waiting for the answer of
\* chat-summary, of analyze/conversation, or of calls/create
LatestIdle ==
  [pc |-> "idle", isFetchingSummary |-> FALSE, isAnalyzingLatest |-> FALSE,
   analysisError |-> Absent, alert |-> Absent, chatGroupId |-> Absent,
   analysis |-> NoAnalysis]

\* const isProcessingLatest = isFetchingSummary || isAnalyzingLatest
isProcessingLatest(state) == state.isFetchingSummary \/ state.isAnalyzingLatest

\* the outer finally block: setIsFetchingSummary(false), and the handler returns
finishFetch(state, alert) ==
  [state EXCEPT !.pc = "idle", !.isFetchingSummary = FALSE, !.alert = alert]

\* the inner catch without the finally block that follows it
failAnalysisWithoutFinally(state, message) ==
  finishFetch([state EXCEPT !.analysisError = message], Absent)

\* the inner catch and finally blocks, then the outer finally block
failAnalysis(state, message) ==
  finishFetch([state EXCEPT !.analysisError = message, !.isAnalyzingLatest = FALSE], Absent)

\* the end of the inner try block, the inner and the outer finally block
completeAnalysis(state) ==
  finishFetch([state EXCEPT !.isAnalyzingLatest = FALSE], Absent)

----------------------------------------------------------------------------
(* Inputs of persistAnalyzedCall *)

\* the phone number field of the dialog: cleared, or the number entered
PhoneNumbers == {Absent, "+91 3489270190"}

PersistChatGroupIds == {"chat_1", "chat_2"}

PersistTranscript == [t |-> "array", segments |-> <<[string |-> TRUE, text |-> <<"fire">>]>>]

\* the frames of the payload: none, or one raw score map
PersistEmotions == {Array(<<>>), Array(<<RawFrame>>)}

\* a conversation the analysis route may have worked on
FireConversation ==
  chatEvents("chat_1", TRUE,
             [kind |-> "ok",
              events |-> <<[type |-> "USER_MESSAGE", text |-> <<"fire">>,
                            emotions |-> Frame(8, 10)]>>])

\* the analysis property of the payload
PersistAnalyses ==
  {NoAnalysis,
   noTranscriptAnalysis,
   createEmotionBasedAnalysis(FireConversation),
   finalAnalysis([severity_score |-> Number(Whole(55)), severity |-> "high",
                  priority_code |-> "Code 2", caller_condition |-> "calm",
                  incident_type |-> "chest pain", incident_subtype |-> Absent,
                  labels |-> Array(<<"MEDICAL_EMERGENCY">>), flags |-> NoArray,
                  immediate_threats |-> Array(<<>>),
                  recommended_units |-> Array(<<"Ambulance 12">>)],
                 FireConversation, ConversationTextOf(FireConversation.transcript))}

\* outcome of the extraction request made by the call-creation request
PersistTriageOutcomes(openaiApiKey) ==
  IF openaiApiKey
  THEN {[kind |-> "json",
         json |-> [mockExtraction(<<"fire">>) EXCEPT !.severity_score = Number(Whole(85))]]}
  ELSE {NoLlmCall}

\* a conversation without a keyword of the escalation table
HelpConversation ==
  chatEvents("chat_1", TRUE,
             [kind |-> "ok",
              events |-> <<[type |-> "USER_MESSAGE", text |-> <<"help">>,
                            emotions |-> Frame(8, 10)]>>])

\* an analysis in which the model answered with a string where a list belongs
StringFlagsAnalysis ==
  finalAnalysis([severity_score |-> Number(Whole(55)), severity |-> "high",
                 priority_code |-> "Code 2", caller_condition |-> "calm",
                 incident_type |-> "chest pain", incident_subtype |-> Absent,
                 labels |-> Array(<<"MEDICAL_EMERGENCY">>), flags |-> NotAnArray,
                 immediate_threats |-> Array(<<>>),
                 recommended_units |-> Array(<<"Ambulance 12">>)],
                HelpConversation, ConversationTextOf(HelpConversation.transcript))

\* the answers of /api/analyze/conversation to the conversation-end handler
ConversationEndAnalyses ==
  {ErrorResponse(500, "Failed to analyze conversation")}
    \cup {AnalysisResponse(a) : a \in (PersistAnalyses \ {NoAnalysis}) \cup {StringFlagsAnalysis}}

\* a request to /api/calls/create that got no answer
CreateFetchFails == ErrorResponse(0, "Failed to fetch")

----------------------------------------------------------------------------
(* State machine *)

\* a page has nothing to persist
NoCall == [none |-> TRUE]

\* a page (a window showing the dialog) on its way through persistAnalyzedCall:
\* idle; created, when the response of /api/calls/create has arrived and the
\* call to store is built; read, after localStorage.getItem; done, after
\* localStorage.setItem
IdlePage == [pc |-> "idle", call |-> NoCall, snapshot |-> <<>>]

Pages == {1, 2}

NoInput == [none |-> TRUE]

NoOutput == [none |-> TRUE]

\* process.env is read by each request handler when it runs (env holds what
\* the running handler read); no handler is running
NoEnv == [none |-> TRUE]

\* the keys the handlers read from process.env: set or not set
Environments == [OPENAI_API_KEY : BOOLEAN, HUME_API_KEY : BOOLEAN]

Init ==
  /\ env = NoEnv
  /\ op = "idle"
  /\ input = NoInput
  /\ output = NoOutput
  /\ storedCalls = <<>>
  /\ pages = [p \in Pages |-> IdlePage]
  /\ latest = LatestIdle

\* a call of calculateEmotionStats
CalculateEmotionStats ==
  /\ op = "idle"
  /\ \E frames \in SeqsUpTo(Frames, MaxFrames) :
       /\ op' = "calculateEmotionStats"
       /\ input' = [allEmotions |-> frames]
       /\ output' = calculateEmotionStats(frames)
  /\ UNCHANGED <<env, storedCalls, pages, latest>>

\* the response is delivered, the result is consumed: the next operation may start
Return ==
  /\ op # "idle"
  /\ op' = "idle"
  /\ input' = NoInput
  /\ output' = NoOutput
  /\ env' = NoEnv
  /\ UNCHANGED <<storedCalls, pages, latest>>

\* a call of applyKeywordEscalation(analysis, conversationText)
ApplyKeywordEscalation ==
  /\ op = "idle"
  /\ \E analysis \in EscalationInputs, conversationText \in Texts :
       /\ op' = "applyKeywordEscalation"
       /\ input' = [analysis |-> analysis, conversationText |-> conversationText]
       /\ output' = applyKeywordEscalation(analysis, conversationText)
  /\ UNCHANGED <<env, storedCalls, pages, latest>>

\* a call of returnMockExtraction(transcript)
ReturnMockExtraction ==
  /\ op = "idle"
  /\ \E transcript \in MockTranscripts :
       /\ op' = "returnMockExtraction"
       /\ input' = [transcript |-> transcript]
       /\ output' = returnMockExtraction(transcript)
  /\ UNCHANGED <<env, storedCalls, pages, latest>>

\* POST /api/triage/extract
TriageExtractPOST ==
  /\ op = "idle"
  /\ \E e \in {x \in Environments : ~x.HUME_API_KEY}, transcript \in ExtractTranscripts :
       \E llm \in IF e.OPENAI_API_KEY /\ ~Falsy(transcript)
                  THEN ExtractLlmOutcomes ELSE {NoLlmCall} :
         /\ env' = e
         /\ op' = "triage/extract"
         /\ input' = [transcript |-> transcript, llm |-> llm]
         /\ output' = triageExtract(transcript, e.OPENAI_API_KEY, llm)
  /\ UNCHANGED <<storedCalls, pages, latest>>

\* POST /api/analyze/conversation, with its request to GET /api/hume/chat-events
AnalyzeConversationPOST ==
  /\ op = "idle"
  /\ \E e \in Environments, chat_group_id \in {Absent, "chat_1"} :
       \E hume \in IF chat_group_id # Absent /\ e.HUME_API_KEY
                   THEN HumeOutcomes ELSE {NoHumeCall} :
         LET humeData == chatEvents(chat_group_id, e.HUME_API_KEY, hume)
             callsLlm == /\ chat_group_id # Absent
                         /\ humeData.status = 200
                         /\ humeData.hasTranscript
                         /\ Len(humeData.transcript) > 0
                         /\ e.OPENAI_API_KEY
         IN \E llm \in IF callsLlm THEN AnalysisLlmOutcomes ELSE {NoLlmCall} :
              /\ env' = e
              /\ op' = "analyze/conversation"
              /\ input' = [chat_group_id |-> chat_group_id, hume |-> hume, llm |-> llm]
              /\ output' = analyzeConversation(chat_group_id, humeData,
                                               e.OPENAI_API_KEY, llm)
  /\ UNCHANGED <<storedCalls, pages, latest>>

\* persistAnalyzedCall(analysisPayload, options), with its request to
\* POST /api/calls/create; reading and writing localStorage happen in one
\* synchronous stretch after the response has arrived
PersistAnalyzedCall ==
  /\ op = "idle"
  /\ \E e \in {x \in Environments : ~x.HUME_API_KEY}, phoneNumber \in PhoneNumbers,
        chatGroupId \in PersistChatGroupIds, analysis \in PersistAnalyses,
        emotionFrames \in PersistEmotions :
       \E triage \in IF phoneNumber = Absent THEN {NoLlmCall}
                     ELSE PersistTriageOutcomes(e.OPENAI_API_KEY) :
         LET triageData ==
               IF phoneNumber = Absent THEN NoTriage
               ELSE triageExtract(StringBody(fullTranscriptOf(PersistTranscript)),
                                  e.OPENAI_API_KEY, triage)
             createPayload == createCall(phoneNumber, PersistTranscript, emotionFrames,
                                         chatGroupId, triageData)
             result == persistAnalyzedCall(storedCalls, createPayload, PersistTranscript,
                                           emotionFrames, analysis)
         IN /\ env' = e
            /\ op' = "persistAnalyzedCall"
            /\ input' = [phoneNumber |-> phoneNumber, chatGroupId |-> chatGroupId,
                         analysis |-> analysis, emotions |-> emotionFrames,
                         triage |-> triage]
            /\ output' = result
            /\ storedCalls' = IF result.threw THEN storedCalls
                              ELSE storedCallsAfter(storedCalls, result.enrichedCall)
  /\ UNCHANGED <<pages, latest>>

\* a conversation-ended event handled while a callId is set; each of the two
\* requests to /api/calls/create is answered or fails
HandleConversationEnd ==
  /\ op = "idle"
  /\ \E e \in {x \in Environments : ~x.HUME_API_KEY}, phoneNumber \in PhoneNumbers,
        chatGroupId \in PersistChatGroupIds, analysisPayload \in ConversationEndAnalyses,
        createAnswered \in BOOLEAN, fallbackAnswered \in BOOLEAN :
       \E triage \in IF phoneNumber = Absent THEN {NoLlmCall}
                     ELSE PersistTriageOutcomes(e.OPENAI_API_KEY) :
         LET triageData ==
               IF phoneNumber = Absent THEN NoTriage
               ELSE triageExtract(StringBody(fullTranscriptOf(PersistTranscript)),
                                  e.OPENAI_API_KEY, triage)
             created == createCall(phoneNumber, PersistTranscript, Array(<<>>),
                                   chatGroupId, triageData)
             result == handleConversationEnd(
                         storedCalls, analysisPayload,
                         IF createAnswered THEN created ELSE CreateFetchFails,
                         IF fallbackAnswered THEN created ELSE CreateFetchFails,
                         PersistTranscript, Array(<<>>))
         IN /\ env' = e
            /\ op' = "handleConversationEnd"
            /\ input' = [phoneNumber |-> phoneNumber, chatGroupId |-> chatGroupId,
                         analysisPayload |-> analysisPayload,
                         createAnswered |-> createAnswered,
                         fallbackAnswered |-> fallbackAnswered]
            /\ output' = result
            /\ storedCalls' = result.calls
  /\ UNCHANGED <<pages, latest>>

\* the response of /api/calls/create arrives on page p and is merged with the analysis
PageCreated(p) ==
  /\ pages[p].pc = "idle"
  /\ \E openaiApiKey \in BOOLEAN, chatGroupId \in PersistChatGroupIds,
        analysis \in PersistAnalyses :
       \E triage \in PersistTriageOutcomes(openaiApiKey) :
         LET triageData == triageExtract(StringBody(fullTranscriptOf(PersistTranscript)),
                                         openaiApiKey, triage)
             createPayload == createCall("+91 3489270190", PersistTranscript, Array(<<>>),
                                         chatGroupId, triageData)
         IN pages' = [pages EXCEPT ![p] =
                        [pc |-> "created",
                         call |-> enrichedCallOf(createPayload.call, PersistTranscript,
                                                 Array(<<>>), analysis),
                         snapshot |-> <<>>]]
  /\ UNCHANGED <<env, op, input, output, storedCalls, latest>>

\* localStorage.getItem('kwik_emergency_calls') and JSON.parse on page p
PageRead(p) ==
  /\ pages[p].pc = "created"
  /\ pages' = [pages EXCEPT ![p].pc = "read", ![p].snapshot = storedCalls]
  /\ UNCHANGED <<env, op, input, output, storedCalls, latest>>

\* findIndex, merge or prepend, and localStorage.setItem on page p
PageWrite(p) ==
  /\ pages[p].pc = "read"
  /\ storedCalls' = storedCallsAfter(pages[p].snapshot, pages[p].call)
  /\ pages' = [pages EXCEPT ![p].pc = "done"]
  /\ UNCHANGED <<env, op, input, output, latest>>

\* a click on 'Fetch Latest Data', which is disabled while isProcessingLatest
ClickFetchLatest ==
  /\ latest.pc = "idle"
  /\ ~isProcessingLatest(latest)
  /\ \E configId \in {Absent, "config_1"} :
       latest' = IF configId = Absent
                 THEN [latest EXCEPT !.alert = "Missing Hume config ID."]
                 ELSE [latest EXCEPT !.pc = "chat-summary",
                                     !.isFetchingSummary = TRUE,
                                     !.isAnalyzingLatest = FALSE,
                                     !.analysisError = Absent,
                                     !.alert = Absent]
  /\ UNCHANGED <<env, op, input, output, storedCalls, pages>>

\* the request to /api/hume/chat-summary settles: it fails, or the events cannot
\* be processed, or there is no recent conversation, or there is one
ChatSummaryArrives ==
  /\ latest.pc = "chat-summary"
  /\ \E outcome \in {"failed", "no latest chat"} \cup PersistChatGroupIds :
       latest' = CASE outcome = "failed" ->
                        finishFetch(latest, "Unable to fetch conversation data")
                   [] outcome = "no latest chat" -> finishFetch(latest, Absent)
                   [] OTHER -> [latest EXCEPT !.pc = "analyze/conversation",
                                              !.isAnalyzingLatest = TRUE,
                                              !.chatGroupId = outcome]
  /\ UNCHANGED <<env, op, input, output, storedCalls, pages>>

\* the request of requestConversationAnalysis settles
LatestAnalysisArrives ==
  /\ latest.pc = "analyze/conversation"
  /\ \E analysisPayload \in ConversationEndAnalyses :
       latest' = IF analysisPayload.status # 200 \/ ~analysisPayload.success
                 THEN failAnalysis(latest, analysisPayload.error)
                 ELSE [latest EXCEPT !.pc = "calls/create",
                                     !.analysis = analysisPayload.analysis]
  /\ UNCHANGED <<env, op, input, output, storedCalls, pages>>

\* the request of persistAnalyzedCall to /api/calls/create settles; the call is
\* stored without an alert (showAlert: false)
LatestCreateArrives ==
  /\ latest.pc = "calls/create"
  /\ \E openaiApiKey \in BOOLEAN, answered \in BOOLEAN :
       \E triage \in PersistTriageOutcomes(openaiApiKey) :
         LET triageData == triageExtract(StringBody(fullTranscriptOf(PersistTranscript)),
                                         openaiApiKey, triage)
             createPayload ==
               IF answered
               THEN createCall("+91 3489270190", PersistTranscript, Array(<<>>),
                               latest.chatGroupId, triageData)
               ELSE CreateFetchFails
             result == persistAnalyzedCall(storedCalls, createPayload, PersistTranscript,
                                           Array(<<>>), latest.analysis)
         IN /\ latest' = IF result.threw THEN failAnalysis(latest, result.error)
                         ELSE completeAnalysis(latest)
            /\ storedCalls' = IF result.threw THEN storedCalls
                              ELSE storedCallsAfter(storedCalls, result.enrichedCall)
  /\ UNCHANGED <<env, op, input, output, pages>>

\* POST /api/calls/create, with its request to POST /api/triage/extract
CallsCreatePOST ==
  /\ op = "idle"
  /\ \E e \in {x \in Environments : ~x.HUME_API_KEY},
        phoneNumber \in {Absent, "+911120000000"} :
       \E transcript \in IF phoneNumber = Absent
                         THEN {[t |-> "undefined", segments |-> <<>>],
                               [t |-> "string",
                                segments |-> <<[string |-> TRUE, text |-> <<"fire">>]>>]}
                         ELSE CallTranscripts,
          emotions \in IF phoneNumber = Absent THEN {NoArray} ELSE CallEmotions,
          conversationId \in ConversationIds :
         \E generated \in IF phoneNumber # Absent /\ conversationId = Absent
                          THEN GeneratedIds ELSE {Absent},
            triage \in IF phoneNumber # Absent /\ HasLength(transcript)
                       THEN {TriageFetchFails} \cup
                            (IF e.OPENAI_API_KEY /\ fullTranscriptOf(transcript) # <<>>
                             THEN ExtractLlmOutcomes ELSE {NoLlmCall})
                       ELSE {NoLlmCall} :
           LET triageResponse ==
                 IF HasLength(transcript) /\ triage # TriageFetchFails
                 THEN triageExtract(StringBody(fullTranscriptOf(transcript)),
                                    e.OPENAI_API_KEY, triage)
                 ELSE NoTriage
               triageData == IF triageResponse.status = 200 THEN triageResponse ELSE NoTriage
           IN /\ env' = e
              /\ op' = "calls/create"
              /\ input' = [phoneNumber |-> phoneNumber, transcript |-> transcript,
                           emotions |-> emotions, conversationId |-> conversationId,
                           triage |-> triage]
              /\ output' = createCall(phoneNumber, transcript, emotions,
                                      OrString(conversationId, generated), triageData)
  /\ UNCHANGED <<storedCalls, pages, latest>>

SpecStats == Init /\ [][CalculateEmotionStats \/ Return]_vars

\* keyword escalation, called alone and as the last step of analyze/conversation
SpecEscalation ==
  Init /\ [][ApplyKeywordEscalation \/ AnalyzeConversationPOST \/ Return]_vars

SpecExtract == Init /\ [][TriageExtractPOST \/ Return]_vars

SpecAnalysis == Init /\ [][AnalyzeConversationPOST \/ Return]_vars

SpecCalls == Init /\ [][CallsCreatePOST \/ Return]_vars

\* the two routes that assemble a call's assessment
SpecMock == Init /\ [][ReturnMockExtraction \/ TriageExtractPOST \/ Return]_vars

SpecNoTranscript ==
  Init /\ [][CalculateEmotionStats \/ AnalyzeConversationPOST \/ Return]_vars

SpecRequests ==
  Init /\ [][TriageExtractPOST \/ AnalyzeConversationPOST \/ CallsCreatePOST \/ Return]_vars

SpecPersist == Init /\ [][PersistAnalyzedCall \/ Return]_vars

SpecConversationEnd ==
  Init /\ [][HandleConversationEnd \/ Return]_vars

FetchLatestNext ==
  ClickFetchLatest \/ ChatSummaryArrives \/ LatestAnalysisArrives \/ LatestCreateArrives

\* every request the flow waits for settles: it is answered or it fails
SpecFetchLatest ==
  /\ Init
  /\ [][FetchLatestNext]_vars
  /\ WF_vars(ChatSummaryArrives)
  /\ WF_vars(LatestAnalysisArrives)
  /\ WF_vars(LatestCreateArrives)

SpecTwoPages ==
  Init /\ [][\E p \in Pages : PageCreated(p) \/ PageRead(p) \/ PageWrite(p)]_vars

SpecPipeline == Init /\ [][AnalyzeConversationPOST \/ CallsCreatePOST \/ Return]_vars

----------------------------------------------------------------------------
(* Properties *)

\* the tier the fixed ladder gives a score
FixedLadder(v) ==
  IF v >= Whole(80) THEN "critical"
  ELSE IF v >= Whole(60) THEN "high"
  ELSE IF v >= Whole(40) THEN "medium"
  ELSE "low"

TierAgrees(r) == IsNumber(r.severity_score) => r.severity = FixedLadder(r.severity_score.v)

\* the rules whose pattern matches the text
FiredRules(text) ==
  {i \in 1..Len(keywordMatrix) : RegexTest(keywordMatrix[i].regex, ToLowerCase(text))}

\* the response of GET /api/hume/chat-events that the analysis in `input` worked on
HumeDataOfInput == chatEvents(input.chat_group_id, env.HUME_API_KEY, input.hume)

GptPath ==
  /\ op = "analyze/conversation"
  /\ output.status = 200
  /\ output.analysis.analysis_method = "GPT-4 + Hume Emotion Detection"

\* C1: at the output of call creation, of the GPT+emotion analysis, of the
\* emotion-only analysis and of keyword escalation, the severity tier is the one
\* the fixed ladder (>=80 critical, >=60 high, >=40 medium, else low) gives the
\* severity_score.
C1_TierMatchesLadder ==
  /\ (op = "calls/create" /\ output.status = 200) => TierAgrees(output.call)
  /\ (op = "analyze/conversation" /\ output.status = 200) => TierAgrees(output.analysis)
  /\ (op = "applyKeywordEscalation" /\ FiredRules(input.conversationText) # {})
       => TierAgrees(output)

\* C2: the distress_level returned by calculateEmotionStats lies in [0, 100]
\* for every frame sequence.
C2_DistressWithinBounds ==
  op = "calculateEmotionStats" =>
    /\ output.distress_level >= 0
    /\ output.distress_level <= Whole(100)

\* the numeric scores an emotion has in the frames, in frame order
RECURSIVE ScoresOf(_, _)
ScoresOf(frames, emotion) ==
  IF frames = <<>> THEN <<>>
  ELSE LET f == Head(frames)
           own == IF f.object
                  THEN SelectSeq(f.entries,
                                 LAMBDA e : e.emotion = emotion /\ IsNumber(e.score))
                  ELSE <<>>
       IN [i \in 1..Len(own) |-> own[i].score.v] \o ScoresOf(Tail(frames), emotion)

RECURSIVE SumOf(_)
SumOf(s) == IF s = <<>> THEN 0 ELSE Head(s) + SumOf(Tail(s))

\* C3: the intensity reported for an emotion is the sum of its numeric scores
\* divided by the number of frames that carry a numeric score for it.
C3_IntensityIsMeanOverOccurrences ==
  op = "calculateEmotionStats" =>
    \A i \in 1..Len(output.top_emotions) :
      LET scores == ScoresOf(input.allEmotions, output.top_emotions[i].emotion)
      IN output.top_emotions[i].intensity * Len(scores) = SumOf(scores)

\* C4: keyword escalation never lowers severity_score, and the final score of
\* the conversation analysis is at least the emotion-boosted score.
C4_EscalationNeverLowersScore ==
  /\ (op = "applyKeywordEscalation" /\ IsNumber(input.analysis.severity_score)) =>
       /\ IsNumber(output.severity_score)
       /\ output.severity_score.v >= input.analysis.severity_score.v
  /\ (GptPath /\ IsNumber(BoostedScore(input.llm.json, HumeDataOfInput))) =>
       /\ IsNumber(output.analysis.severity_score)
       /\ output.analysis.severity_score.v >= BoostedScore(input.llm.json, HumeDataOfInput).v

\* a conversation whose boosted score was below the floor of a rule that fired
C4_Witness ==
  /\ GptPath
  /\ FiredRules(ConversationTextOf(HumeDataOfInput.transcript)) # {}
  /\ IsNumber(BoostedScore(input.llm.json, HumeDataOfInput))
  /\ BoostedScore(input.llm.json, HumeDataOfInput).v > Whole(20)
  /\ output.analysis.severity_score.v > BoostedScore(input.llm.json, HumeDataOfInput).v

\* every string transcript is answered with success and a complete extraction
ValidExtraction(e) ==
  /\ e.incident_type # Absent
  /\ e.severity # Absent
  /\ IsNumber(e.confidence_score)
  /\ \A f \in {"immediate_threats", "time_sensitive_factors", "vehicles_involved",
               "weapons_mentioned", "missing_critical_info", "recommended_questions"} :
       IsArray(e[f])

\* C5: for every transcript string, the empty one included, triage/extract
\* answers with success and a structurally valid extraction, never an error.
C5_ExtractionNeverFails ==
  (op = "triage/extract" /\ input.transcript.t = "string") =>
    /\ output.status = 200
    /\ output.success
    /\ ValidExtraction(output.extraction)

\* the call's inputs are the scenario's: "fire" said, no frames, no model key
FireScenarioCall ==
  /\ op = "calls/create"
  /\ ~env.OPENAI_API_KEY
  /\ input.phoneNumber # Absent
  /\ Includes(fullTranscriptOf(input.transcript), "fire")
  /\ input.emotions \in {NoArray, Array(<<>>)}
  /\ input.triage = NoLlmCall

FireScenarioAnalysis ==
  /\ op = "analyze/conversation"
  /\ ~env.OPENAI_API_KEY
  /\ output.status = 200
  /\ Includes(ConversationTextOf(HumeDataOfInput.transcript), "fire")
  /\ HumeDataOfInput.emotions = <<>>

\* C6: with "fire" in the transcript, no emotion frames and no model key, the
\* result has incident_type fire, and keyword escalation leaves
\* severity_score >= 90, severity critical and the flag ACTIVE_FIRE - in the
\* record of call creation and in the conversation analysis.
C6_FireScenarioEscalated ==
  /\ FireScenarioCall =>
       /\ output.status = 200
       /\ output.call.incident_type = "fire"
       /\ output.call.severity = "critical"
       /\ IsNumber(output.call.severity_score)
       /\ output.call.severity_score.v >= Whole(90)
       /\ "flags" \in DOMAIN output.call
       /\ Includes(output.call.flags.items, "ACTIVE_FIRE")
  /\ FireScenarioAnalysis =>
       /\ output.analysis.incident_type = "fire"
       /\ output.analysis.severity = "critical"
       /\ output.analysis.severity_score.v >= Whole(90)
       /\ Includes(output.analysis.flags.items, "ACTIVE_FIRE")

\* C7: after escalation the score is at least the floor of every rule that
\* matched (95 cardiac, 92 trauma, 90 fire) and priority_code is "Code 3".
C7_ScoreReachesRuleFloor ==
  op = "applyKeywordEscalation" =>
    \A i \in FiredRules(input.conversationText) :
      /\ IsNumber(output.severity_score)
      /\ output.severity_score.v >= Whole(keywordMatrix[i].severity)
      /\ output.priority_code = "Code 3"

\* trauma and fire both matched an analysis scored 50: the higher floor applies
C7_Witness ==
  /\ op = "applyKeywordEscalation"
  /\ FiredRules(input.conversationText) = {2, 3}
  /\ input.analysis.severity_score = Number(Whole(50))
  /\ input.analysis.priority_code = "Code 1"
  /\ output.severity_score = Number(Whole(92))

\* C8: whenever a rule fires, "Advanced Life Support Ambulance" is the first
\* element of recommended_units, whatever recommended_units held before.
C8_ALSIsFirstUnit ==
  (op = "applyKeywordEscalation" /\ FiredRules(input.conversationText) # {}) =>
    /\ IsArray(output.recommended_units)
    /\ output.recommended_units.items # <<>>
    /\ output.recommended_units.items[1] = ALS

\* C9: when no rule matches the text, escalation leaves the analysis unchanged.
C9_NoMatchNoChange ==
  (op = "applyKeywordEscalation" /\ FiredRules(input.conversationText) = {}) =>
    output = input.analysis

\* a text that only contains "fire" inside another word, an analysis without lists
C9_Witness ==
  /\ op = "applyKeywordEscalation"
  /\ FiredRules(input.conversationText) = {}
  /\ Includes(input.conversationText, "firearm")
  /\ input.analysis.flags = NoArray
  /\ input.analysis.recommended_units = NotAnArray
  /\ output = input.analysis

\* C10: when the language-model call of analyze/conversation fails, the route
\* still answers with success and the emotion-only analysis.
C10_LlmFailureFallsBack ==
  (op = "analyze/conversation"
     /\ input.llm.kind \in {"network error", "http error", "empty content",
                            "malformed json"}) =>
    /\ output.status = 200
    /\ output.success
    /\ output.analysis.analysis_method = "Emotion-based (GPT unavailable)"

\* C11: for a non-empty transcript, triage/extract answers with success whatever
\* the language-model call did; without a key, on a thrown network or API error
\* and on content that is not valid JSON the answer is the keyword-based mock
\* extraction of that transcript, model 'mock_extraction'.
C11_ExtractionFallsBackToMock ==
  (op = "triage/extract" /\ ~Falsy(input.transcript)) =>
    /\ output.status = 200
    /\ output.success
    /\ (~env.OPENAI_API_KEY \/ input.llm \in LlmFailures) =>
         /\ output.model = "mock_extraction"
         /\ output.extraction = mockExtraction(input.transcript.text)

C11_Witness ==
  /\ op = "triage/extract"
  /\ input.transcript = StringBody(<<"Heart", "attack">>)
  /\ env.OPENAI_API_KEY
  /\ input.llm.kind = "malformed json"
  /\ output.model = "mock_extraction"
  /\ output.extraction.incident_type = "medical_emergency"

\* C12: a call-creation request that carries a phone number is answered with
\* success and a call record, whatever the triage sub-request did and whatever
\* the shape of the transcript.
C12_CallCreationAlwaysCompletes ==
  (op = "calls/create" /\ input.phoneNumber # Absent) =>
    /\ output.status = 200
    /\ output.success
    /\ "call" \in DOMAIN output

\* C13: a request without its required field (calls/create without phoneNumber,
\* triage/extract without transcript, analyze/conversation without
\* chat_group_id) is answered with status 400, makes no external request and
\* produces no call record.
C13_MissingFieldIsClientError ==
  /\ (op = "calls/create" /\ input.phoneNumber = Absent) =>
       /\ output.status = 400
       /\ ~output.success
       /\ "call" \notin DOMAIN output
       /\ input.triage = NoLlmCall
  /\ (op = "triage/extract" /\ input.transcript = NoBody) =>
       /\ output.status = 400
       /\ ~output.success
       /\ input.llm = NoLlmCall
  /\ (op = "analyze/conversation" /\ input.chat_group_id = Absent) =>
       /\ output.status = 400
       /\ ~output.success
       /\ input.hume = NoHumeCall
       /\ input.llm = NoLlmCall

C13_Witness ==
  /\ op = "calls/create"
  /\ input.phoneNumber = Absent
  /\ HasLength(input.transcript)
  /\ env.OPENAI_API_KEY
  /\ output.status = 400

\* C14: when the fetched conversation has no transcript (the property is
\* absent, or the list is empty) analyze/conversation answers with the label
\* NO_TRANSCRIPT, severity 'low' and severity_score 0 and does not call the
\* language model; calculateEmotionStats of no frames is exactly
\* top_emotions = [], average_intensity = 0, distress_level = 0.
C14_NoTranscriptAnalysis ==
  /\ (/\ op = "analyze/conversation"
      /\ input.chat_group_id # Absent
      /\ HumeDataOfInput.status = 200
      /\ (~HumeDataOfInput.hasTranscript \/ HumeDataOfInput.transcript = <<>>)) =>
       /\ output.status = 200
       /\ output.success
       /\ Includes(output.analysis.labels.items, "NO_TRANSCRIPT")
       /\ output.analysis.severity = "low"
       /\ output.analysis.severity_score = Number(0)
       /\ input.llm = NoLlmCall
  /\ (op = "calculateEmotionStats" /\ input.allEmotions = <<>>) =>
       /\ output.top_emotions = <<>>
       /\ output.average_intensity = 0
       /\ output.distress_level = 0

\* the vendor answered with events, none of them a message, and both keys are set
C14_Witness ==
  /\ op = "analyze/conversation"
  /\ env.HUME_API_KEY
  /\ env.OPENAI_API_KEY
  /\ input.hume.kind = "ok"
  /\ input.hume.events # <<>>
  /\ HumeDataOfInput.transcript = <<>>
  /\ Includes(output.analysis.labels.items, "NO_TRANSCRIPT")

\* the request's emotion entries all carry a numeric intensity
WellFormedEmotions ==
  \A i \in 1..Len(input.emotions.items) : IsNumber(input.emotions.items[i].intensity)

\* clamp(base + weight[top.emotion] x top.intensity, 0, 100), with `present`
\* telling which extraction scores count as present
ScoreFormulaHolds(present(_)) ==
  LET items == input.emotions.items
      base == IF input.triage.kind = "json" /\ present(input.triage.json.severity_score)
              THEN input.triage.json.severity_score.v ELSE Whole(50)
      clamp(x) == Max(0, Min(x, Whole(100)))
  IN /\ IsNumber(output.call.severity_score)
     /\ IF items = <<>> THEN output.call.severity_score.v = clamp(base)
        ELSE \E i \in 1..Len(items) :
               /\ \A j \in 1..Len(items) : items[j].intensity.v <= items[i].intensity.v
               /\ output.call.severity_score.v =
                    clamp(base + emotionBoost(items[i].emotion) * items[i].intensity.v)

\* C15: the score of a created call is clamp(base + weight[top.emotion] x
\* top.intensity, 0, 100): top is the entry of greatest intensity, the weights
\* are fear 20, distress 20, panic 25, anxiety 15, anger 15, sadness 10 and 0
\* otherwise, base is the extraction's severity_score when it has one and 50
\* otherwise, and without emotion entries the boost is 0.
C15_CallScoreFormula ==
  (op = "calls/create" /\ output.status = 200 /\ WellFormedEmotions) =>
    ScoreFormulaHolds(IsNumber)

\* the same with an extraction score of 0 taken as no score
C15_FormulaForTruthyScores ==
  (op = "calls/create" /\ output.status = 200 /\ WellFormedEmotions) =>
    ScoreFormulaHolds(LAMBDA x : IsNumber(x) /\ x.v # 0)

\* the keyword groups in the order they are tried, with their classification
ClassificationGroups ==
  <<[keywords |-> {"fire", "burning"}, incident_type |-> "fire", severity |-> "critical"],
    [keywords |-> {"accident", "crash", "collision"}, incident_type |-> "accident",
     severity |-> "high"],
    [keywords |-> {"medical", "heart", "injury"}, incident_type |-> "medical_emergency",
     severity |-> "high"],
    [keywords |-> {"theft", "robbery", "burglary"}, incident_type |-> "crime",
     severity |-> "medium"]>>

\* the groups of which a keyword is a substring of the case-folded transcript
MatchingGroups(transcript) ==
  {i \in 1..Len(ClassificationGroups) :
     \E k \in ClassificationGroups[i].keywords, j \in 1..Len(transcript) :
       k \in SubstringsOf(ToLowerCaseWord(transcript[j]))}

FirstGroupDecides(transcript, extraction) ==
  LET m == MatchingGroups(transcript)
  IN /\ IsNumber(extraction.confidence_score)
     /\ extraction.confidence_score.v * 100 = 75 * ONE
     /\ IF m = {}
        THEN extraction.incident_type = "other" /\ extraction.severity = "medium"
        ELSE LET g == ClassificationGroups[CHOOSE i \in m : \A j \in m : i <= j]
             IN extraction.incident_type = g.incident_type /\ extraction.severity = g.severity

\* C16: the mock extractor classifies by case-insensitive substring presence,
\* the first matching group deciding in the order fire/burning (fire, critical),
\* accident/crash/collision (accident, high), medical/heart/injury
\* (medical_emergency, high), theft/robbery/burglary (crime, medium), none
\* (other, medium); its confidence_score is always 0.75.
C16_MockClassification ==
  /\ (op = "returnMockExtraction") => FirstGroupDecides(input.transcript, output.extraction)
  /\ (op = "triage/extract" /\ output.status = 200 /\ output.model = "mock_extraction") =>
       FirstGroupDecides(input.transcript.text, output.extraction)

\* a transcript with a medical and an accident keyword, in that order
C16_Witness ==
  /\ op = "returnMockExtraction"
  /\ input.transcript = <<"Heart", "crashed">>
  /\ output.extraction.incident_type = "accident"
  /\ output.extraction.severity = "high"

\* C17: a created call has status 'active' and a fresh identity: no call
\* creation returns a record with the id of a record an earlier call creation
\* returned (the stored calls are the records earlier creations returned),
\* whatever conversationId the request carries.
C17_CreatedCallIsActiveAndFresh ==
  [][(op' = "persistAnalyzedCall" /\ ~output'.threw) =>
       /\ output'.baseCall.status = "active"
       /\ \A i \in 1..Len(storedCalls) : storedCalls[i].id # output'.baseCall.id]_vars

\* the labels (or flags) of a stored call
TagsOf(call, field) ==
  LET list == Get(call, field, NoArray) IN {list.items[i] : i \in 1..Len(list.items)}

\* C18: when a call of the stored list is updated by a later analysis pass (its
\* id is persisted again), every label and every flag the stored call carried
\* before is still on it afterwards.
C18_UpdateKeepsLabelsAndFlags ==
  [][(op' = "persistAnalyzedCall" /\ ~output'.threw /\ output'.isUpdate) =>
       LET i == findIndex(storedCalls, output'.callId)
       IN /\ TagsOf(storedCalls[i], "labels") \subseteq TagsOf(storedCalls'[i], "labels")
          /\ TagsOf(storedCalls[i], "flags") \subseteq TagsOf(storedCalls'[i], "flags")]_vars

\* C19: every call record returned by call creation has an incident_type of
\* the enum IncidentType and a caller_condition of the enum CallerCondition,
\* also when triage is unavailable or no transcript was supplied.
C19_CallFieldsWithinEnums ==
  (op = "calls/create" /\ output.status = 200) =>
    /\ output.call.incident_type \in IncidentType
    /\ output.call.caller_condition \in CallerCondition

\* every numeric score of the frames lies in [0, 1]
ScoresWellFormed(frames) ==
  \A i \in 1..Len(frames) :
    frames[i].object =>
      \A j \in 1..Len(frames[i].entries) :
        IsNumber(frames[i].entries[j].score) =>
          /\ frames[i].entries[j].score.v >= 0
          /\ frames[i].entries[j].score.v <= ONE

\* C20: for every frame sequence whose numeric scores all lie in [0, 1] the
\* average_intensity returned by calculateEmotionStats lies in [0, 1], and it
\* is 0 when the list of top emotions is empty.
C20_AverageIntensityWithinUnit ==
  (op = "calculateEmotionStats" /\ ScoresWellFormed(input.allEmotions)) =>
    /\ output.average_intensity >= 0
    /\ output.average_intensity <= ONE
    /\ (output.top_emotions = <<>>) => (output.average_intensity = 0)

\* two emotions with scores in [0, 1], reported with a mean between them
C20_Witness ==
  /\ op = "calculateEmotionStats"
  /\ ScoresWellFormed(input.allEmotions)
  /\ Len(output.top_emotions) = 2
  /\ output.top_emotions[1].intensity = ONE
  /\ output.top_emotions[2].intensity = Num(5)
  /\ output.average_intensity = Percent(75)

\* the frame sequence without its non-object frames, and the remaining frames
\* without their non-numeric score fields
RECURSIVE WellFormedPart(_)
WellFormedPart(frames) ==
  IF frames = <<>> THEN <<>>
  ELSE (IF Head(frames).object
        THEN <<[object |-> TRUE,
                entries |-> SelectSeq(Head(frames).entries, LAMBDA e : IsNumber(e.score))]>>
        ELSE <<>>) \o WellFormedPart(Tail(frames))

\* C21: malformed input never changes the result of aggregation: for every
\* frame sequence calculateEmotionStats returns the statistics it returns on
\* the sequence with the non-object frames and the non-numeric score fields
\* removed.
C21_MalformedInputIsSkipped ==
  op = "calculateEmotionStats" =>
    output = calculateEmotionStats(WellFormedPart(input.allEmotions))

\* a non-object frame next to a frame with a string-valued and a numeric score
C21_Witness ==
  /\ op = "calculateEmotionStats"
  /\ \E i \in 1..Len(input.allEmotions) : ~input.allEmotions[i].object
  /\ \E i \in 1..Len(input.allEmotions) :
       /\ input.allEmotions[i].object
       /\ \E j \in 1..Len(input.allEmotions[i].entries) :
            input.allEmotions[i].entries[j].score = StringValue
       /\ \E j \in 1..Len(input.allEmotions[i].entries) :
            IsNumber(input.allEmotions[i].entries[j].score)
  /\ output.top_emotions # <<>>

\* C22: two call completions that persist to the stored list concurrently
\* never lose an update: once both persist operations have finished, in every
\* interleaving of their read and write steps, the stored list contains both
\* calls.
C22_NoLostUpdate ==
  (\A p \in Pages : pages[p].pc = "done") =>
    \A p \in Pages : findIndex(storedCalls, pages[p].call.id) > 0

\* a string-valued property that holds nothing: undefined, or the empty string
Unset(x) == x \in {Absent, ""}

\* the first rule of the table whose pattern matches the text
FirstFiredRule(text) ==
  keywordMatrix[CHOOSE i \in FiredRules(text) : \A j \in FiredRules(text) : i <= j]

\* C23: escalation fills caller_condition, incident_type and incident_subtype
\* only when they are unset: a value present before escalation is kept, and
\* when several rules match, the unset fields take the values of the first
\* matching rule in table order (cardiac, then trauma, then fire).
C23_FillsOnlyUnsetFields ==
  (op = "applyKeywordEscalation" /\ FiredRules(input.conversationText) # {}) =>
    LET before == input.analysis
        first == FirstFiredRule(input.conversationText)
    IN /\ output.caller_condition =
            IF Unset(before.caller_condition) THEN "panicked" ELSE before.caller_condition
       /\ output.incident_type =
            IF Unset(before.incident_type) THEN first.incident.type ELSE before.incident_type
       /\ output.incident_subtype =
            IF Unset(before.incident_subtype) THEN first.incident.subtype
            ELSE before.incident_subtype

\* two rules match, the subtype is present and the type is not
C23_Witness ==
  /\ op = "applyKeywordEscalation"
  /\ Cardinality(FiredRules(input.conversationText)) >= 2
  /\ input.analysis.incident_subtype = "gas leak"
  /\ input.analysis.incident_type = Absent
  /\ output.incident_type = "medical_emergency"
  /\ output.incident_subtype = "gas leak"

\* the extraction the call-creation request in `input` received, if any
TriageDataOfInput ==
  IF HasLength(input.transcript) /\ input.triage # TriageFetchFails
  THEN LET triageResponse ==
             triageExtract(StringBody(fullTranscriptOf(input.transcript)),
                           env.OPENAI_API_KEY, input.triage)
       IN IF triageResponse.status = 200 THEN triageResponse ELSE NoTriage
  ELSE NoTriage

\* the gazetteer entries a text names
NamedPlaces(text) ==
  {i \in 1..Len(lookupTable) : IncludesPhrase(ToLowerCase(text), lookupTable[i].key)}

\* C24: the caller location of a call created from an extraction is resolved
\* in three tiers: location text naming a gazetteer place gets that place's
\* coordinates with confidence 0.85, other non-empty text gets the default
\* coordinates with confidence 0.4, and only the absence of location text
\* gives the 'Location pending verification' placeholder with confidence 0.25.
C24_LocationTiers ==
  (op = "calls/create" /\ output.status = 200 /\ TriageDataOfInput.status = 200) =>
    LET text == Trim(TriageDataOfInput.extraction.location.text)
        location == output.call.caller_location
    IN IF text = <<>>
       THEN /\ location.address = <<"Location pending verification">>
            /\ location.confidence = Percent(25)
       ELSE IF NamedPlaces(text) # {}
       THEN /\ location.address = text
            /\ location.confidence = Percent(85)
            /\ \E i \in NamedPlaces(text) :
                 /\ location.latitude = lookupTable[i].latitude
                 /\ location.longitude = lookupTable[i].longitude
       ELSE /\ location.address = text
            /\ location.confidence = Percent(40)
            /\ location.latitude = "37.7749"
            /\ location.longitude = "-122.4194"

\* C25: whenever at least one keyword rule fires, the severity after
\* escalation is 'critical' and severity_score is at least 90, whatever the
\* score was before (a missing one included); the tier is never 'low'.
C25_FiredRuleMeansCritical ==
  (op = "applyKeywordEscalation" /\ FiredRules(input.conversationText) # {}) =>
    /\ output.severity = "critical"
    /\ output.severity # "low"
    /\ IsNumber(output.severity_score)
    /\ output.severity_score.v >= Whole(90)

\* a rule fires on an analysis of tier 'low' without a score
C25_Witness ==
  /\ op = "applyKeywordEscalation"
  /\ FiredRules(input.conversationText) = {3}
  /\ input.analysis.severity_score = Undefined
  /\ input.analysis.severity = "low"
  /\ output.severity = "critical"
  /\ output.severity_score = Number(Whole(90))

\* the tag lists of an analysis, each with the rule property that feeds it
TagFields ==
  {[list |-> "labels", tag |-> "label"], [list |-> "flags", tag |-> "flag"],
   [list |-> "immediate_threats", tag |-> "threat"]}

\* the items of a property that should hold a list
ItemsOf(x) == IF IsArray(x) THEN x.items ELSE <<>>

\* how often x occurs in a list
Occurrences(list, x) == Cardinality({i \in 1..Len(list) : list[i] = x})

\* C26: keyword escalation is idempotent and additive on the tag lists:
\* applying it again with the same text changes nothing, the label, flag and
\* threat of each fired rule occur exactly once if they were absent before, and
\* every label, flag and threat present before is present afterwards, in the
\* same relative order.
C26_EscalationIdempotentAndAdditive ==
  op = "applyKeywordEscalation" =>
    /\ applyKeywordEscalation(output, input.conversationText) = output
    /\ \A f \in TagFields :
         LET before == ItemsOf(input.analysis[f.list])
             after == ItemsOf(output[f.list])
         IN /\ SelectSeq(after, LAMBDA x : Includes(before, x)) = before
            /\ \A i \in FiredRules(input.conversationText) :
                 ~Includes(before, keywordMatrix[i][f.tag]) =>
                   Occurrences(after, keywordMatrix[i][f.tag]) = 1

\* two rules fire on an analysis that has the flag of one of them already
C26_Witness ==
  /\ op = "applyKeywordEscalation"
  /\ FiredRules(input.conversationText) = {2, 3}
  /\ input.analysis.flags = Array(<<"ACTIVE_FIRE", "OTHER">>)
  /\ output.flags = Array(<<"ACTIVE_FIRE", "OTHER", "LIFE_THREATENING_BLEED">>)
  /\ input.analysis.labels = NoArray
  /\ output.labels = Array(<<"TRAUMA_EMERGENCY", "FIRE_EMERGENCY">>)

\* C27: for every call-creation request with a phone number and every shape
\* of the emotions list, frames that are raw score maps without `emotion` and
\* `intensity` included, the created call's severity_score is a number in
\* [0,100], and it is the base score whenever the top frame names no weighted
\* emotion.
C27_CallScoreIsANumberInRange ==
  (op = "calls/create" /\ output.status = 200) =>
    LET score == output.call.severity_score
        top == topEmotionOf(input.emotions)
    IN /\ IsNumber(score)
       /\ score.v >= 0
       /\ score.v <= Whole(100)
       /\ (top.none \/ emotionBoost(top.emotion) = 0) =>
            score.v = Max(0, Min(BaseScore(TriageDataOfInput), Whole(100)))

\* no two records of the list have the same id
NoDuplicateIds(calls) ==
  \A i, j \in 1..Len(calls) : calls[i].id = calls[j].id => i = j

\* C28: persistAnalyzedCall and handleFallbackCallCreation keep ids unique in
\* the stored list: from a list without duplicate ids, after persisting a call
\* the list holds exactly one record with its id, an existing record is merged
\* in place at its index, a new one is inserted in front, the list grows by at
\* most one, and all other records keep their content and relative order.
C28_PersistKeepsIdsUnique ==
  [][(op' = "handleConversationEnd" /\ output'.writes > 0 /\ NoDuplicateIds(storedCalls)) =>
       LET id == input'.chatGroupId
           existingIndex == findIndex(storedCalls, id)
       IN /\ Cardinality({i \in 1..Len(storedCalls') : storedCalls'[i].id = id}) = 1
          /\ NoDuplicateIds(storedCalls')
          /\ Len(storedCalls') <= Len(storedCalls) + 1
          /\ IF existingIndex > 0
             THEN /\ Len(storedCalls') = Len(storedCalls)
                  /\ storedCalls'[existingIndex].id = id
                  /\ \A j \in 1..Len(storedCalls) :
                       j # existingIndex => storedCalls'[j] = storedCalls[j]
             ELSE /\ storedCalls'[1].id = id
                  /\ Tail(storedCalls') = storedCalls]_vars

\* the fallback has merged a call into the second record of the list
C28_Witness ==
  /\ op = "handleConversationEnd"
  /\ output.fallbackRan
  /\ output.writes = 1
  /\ ~output.persistWrote
  /\ Len(storedCalls) = 2
  /\ storedCalls[2].id = input.chatGroupId
  /\ "analysis" \in DOMAIN storedCalls[2]
  /\ storedCalls[1].id # input.chatGroupId

\* C29: for each conversation-ended event handled while a callId is set, the
\* fallback creation runs only if the analysis path failed (it has persisted
\* nothing), the stored list is written at most once and the dashboard is
\* notified at most once, and the flow ends with the call in the stored list or
\* with a failure alert, for every combination of analysis and call-creation
\* outcomes.
C29_ConversationEndRunsOnePath ==
  op = "handleConversationEnd" =>
    /\ output.fallbackRan => (output.analysisThrew \/ ~output.persistWrote)
    /\ output.writes <= 1
    /\ output.notified <= 1
    /\ \/ output.writes >= 1 /\ findIndex(storedCalls, input.chatGroupId) > 0
       \/ Includes(output.alerts, "Failed to create call. Please try again.")

\* C30: every run of the 'Fetch Latest Data' flow eventually leaves both busy
\* flags false, so that the button is enabled again, on every path: missing
\* config id, fetch failure, no recent conversation, analysis failure, persist
\* failure and full success.
C30_BusyFlagsAreCleared ==
  /\ [](latest.pc = "idle" => ~isProcessingLatest(latest))
  /\ (latest.pc # "idle") ~> (latest.pc = "idle" /\ ~isProcessingLatest(latest))

\* a run has ended with a failed analysis, the button is enabled
C30_Witness ==
  /\ latest.pc = "idle"
  /\ latest.analysisError = "Failed to analyze conversation"
  /\ ~latest.isFetchingSummary
  /\ ~latest.isAnalyzingLatest

====
